---- MODULE Spec2Model ----
(***************************************************************************)
(* A model of the session orchestration engine of the interactive story    *)
(* player: the backoff retrier (utils/retryWithBackoff.ts), the progress   *)
(* store (services/storageService.ts), the turn loop with its detached     *)
(* media generation (components/StoryPlayer.tsx, services/geminiService.ts *)
(* and the fal service) and the narration handlers.                        *)
(*                                                                         *)
(* Each subsystem has its own specification over the same variables:       *)
(*   SpecRetry  the retrier                                                *)
(*   SpecStore  saveStoryProgress / loadStoryProgress / forceCleanup       *)
(*   Spec       the turn loop, media generation and media cache            *)
(*   SpecNarr   the narration handlers                                     *)
(***************************************************************************)
EXTENDS Integers, Sequences, FiniteSets, TLC

VARIABLES
    \* ---- retrier (retryWithExponentialBackoff) ----
    rt_pc,        \* "idle" | "calling" | "sleeping" | "returned" | "thrown"
    rt_config,    \* the merged options of the call in progress
    rt_attempt,   \* the loop variable `attempt`
    rt_lastError, \* the local `lastError`
    rt_calls,     \* how many times operation() was invoked by this call
    rt_errors,    \* the errors the attempts raised, in order
    rt_sleeps,    \* the delays passed to sleep(), in order (scaled, see addJitter)
    rt_thrown,    \* the error the call rejected with, or NoError
    \* ---- progress store (localStorage) ----
    ls_progress,  \* the item stored under PROGRESS_KEY, or NoItem
    st_last,      \* what the last store operation did (for the claims)
    \* ---- turn loop (StoryPlayer) ----
    mountRuns,          \* how many times the mount effect has run (StrictMode: 2)
    cfg,                \* the environment the session runs in, fixed at mount
    segments,           \* useState: the segment list
    choices,            \* useState: the pending choices
    isLoading,          \* useState
    isGeneratingRef,    \* useRef: the re-entrancy flag
    storyHistory,       \* useRef: PROMPT / RESPONSE entries
    userChoiceCount,    \* useState
    showCompletionModal,\* useState
    turn,               \* number of narrative requests issued so far
    pendingNarrative,   \* generateStorySegment calls in flight
    awaitingMemory,     \* handleChoice calls suspended at `await trackChoice`
    mediaTasks,         \* detached media tasks, each at one of its awaits
    mediaCache,         \* the IndexedDB store of utils/mediaCache.ts
    attachedBy,         \* history: per segment, the turn whose task set its image
    failedTurns,        \* history: turns whose narrative call fell back or threw
    lastEvent,          \* the handler or callback that ran in the last step
    \* ---- narration (StoryPlayer) ----
    narrationSettings,     \* useState: loadSettings().narration
    firstRenderNarration,  \* the narration settings the first render's closures hold
    currentlyPlayingIndex, \* useState: the segment being narrated, or NoIndex
    isPaused,              \* useState
    isGeneratingAudio,     \* useState
    currentAudioElement,   \* useState: an element of audioElements, or NoAudio
    audioElements,         \* the Audio objects created so far and their playback state
    synth,                 \* window.speechSynthesis
    narrationTasks,        \* hosted narration handlers, each at one of its awaits
    audioCache,            \* the IndexedDB store of utils/audioCache.ts
    narrations,            \* history: the narrations started, in order
    \* ---- the cache stores (utils/mediaCache.ts, utils/audioCache.ts) ----
    cacheKind,    \* which store is followed: "media", "audio", or "none" yet
    cacheStore,   \* the object store: key -> entry
    cacheClock,   \* Date.now(), in seconds
    cacheOps,     \* history: the cache calls and clock readings so far
    cacheLast,    \* history: the last cache call and what it answered
    cachePut,     \* history: the last call that put an entry
    \* ---- clips (StoryPlayer, settings.fal in localStorage) ----
    falSettings,        \* the persisted clip settings, as loadFalSettings() answers
    gifGeneratedCount,  \* useState: clips generated in this session
    gifError,           \* useState: the advisory message, or Null
    \* ---- settings (localStorage under SETTINGS_KEY) ----
    settingsItem,  \* the stored string, or NoItem
    defaultVoice,  \* what speechService.getDefaultVoice() answers
    settingsLast,  \* history: the last settings call and what it returned
    \* ---- clarifications (handleAskQuestion) ----
    isAnswering,           \* useState isAnswering
    pendingClarification,  \* handleAskQuestion calls suspended at `await generateClarification`
    askCount               \* history: how many questions were asked

rtVars == <<rt_pc, rt_config, rt_attempt, rt_lastError, rt_calls, rt_errors,
            rt_sleeps, rt_thrown>>

stVars == <<ls_progress, st_last>>

tlVars == <<mountRuns, cfg, segments, choices, isLoading, isGeneratingRef,
            storyHistory, userChoiceCount, showCompletionModal, turn,
            pendingNarrative, awaitingMemory, mediaTasks, mediaCache,
            attachedBy, failedTurns, lastEvent>>

nrVars == <<narrationSettings, firstRenderNarration, currentlyPlayingIndex,
            isPaused, isGeneratingAudio, currentAudioElement, audioElements,
            synth, narrationTasks, audioCache, narrations>>

chVars == <<cacheKind, cacheStore, cacheClock, cacheOps, cacheLast, cachePut>>

clVars == <<falSettings, gifGeneratedCount, gifError>>

seVars == <<settingsItem, defaultVoice, settingsLast>>
aqVars == <<isAnswering, pendingClarification, askCount>>

vars == <<rtVars, stVars, tlVars, nrVars, chVars, clVars, seVars, aqVars>>

Max(a, b) == IF a >= b THEN a ELSE b
Min(a, b) == IF a <= b THEN a ELSE b

RECURSIVE Pow2(_)
Pow2(n) == IF n = 0 THEN 1 ELSE 2 * Pow2(n - 1)

(***************************************************************************)
(*                              THE RETRIER                                *)
(***************************************************************************)

\* Bounds of the retrier model.
MaxRetriesBound == 3      \* options.maxRetries is drawn from 0..MaxRetriesBound
JitterSteps == 4          \* Math.random() is drawn from {0/J, 1/J, .., (J-1)/J}
SmallMaxDelayMs == 3000   \* a small options.maxDelayMs, so that the cap is hit

\* Program constants.
DEFAULT_MAX_RETRIES == 3
DEFAULT_INITIAL_DELAY_MS == 1000
DEFAULT_MAX_DELAY_MS == 30000
FAL_INITIAL_DELAY_MS == 2000

NoError == [name |-> "none", message |-> "none", id |-> 0]

\* What `error.message.includes(keyword)` answers for the messages of the model.
MessageIncludes(message, keyword) ==
    CASE message = "network error"          -> keyword = "network"
      [] message = "request timeout"        -> keyword = "timeout"
      [] message = "quota exceeded"         -> keyword = "quota"
      [] message = "bad configuration"      -> keyword = "configuration"
      [] message = "Invalid API key"        -> keyword = "API key"
      [] OTHER                              -> FALSE

\* The errors an operation may raise: (name, message) pairs.
ErrorKinds ==
    { [name |-> "Error",                 message |-> "network error"],
      [name |-> "TimeoutError",          message |-> "request timeout"],
      [name |-> "QuotaExceededError",    message |-> "limit reached"],
      [name |-> "Error",                 message |-> "quota exceeded"],
      [name |-> "FalConfigurationError", message |-> "missing key"],
      [name |-> "Error",                 message |-> "Invalid API key"] }

\* DEFAULT_OPTIONS.shouldRetry
DefaultShouldRetry(error) ==
    IF \/ error.name = "QuotaExceededError"
       \/ error.name = "FalConfigurationError"
       \/ MessageIncludes(error.message, "quota")
       \/ MessageIncludes(error.message, "configuration")
       \/ MessageIncludes(error.message, "API key")
    THEN FALSE
    ELSE TRUE

\* FAL_RETRY_CONFIG.shouldRetry
FalShouldRetry(error) ==
    IF \/ error.name = "QuotaExceededError"
       \/ error.name = "FalConfigurationError"
       \/ MessageIncludes(error.message, "quota")
       \/ MessageIncludes(error.message, "configuration")
       \/ MessageIncludes(error.message, "API key")
    THEN FALSE
    ELSE IF \/ MessageIncludes(error.message, "timeout")
            \/ MessageIncludes(error.message, "network")
            \/ MessageIncludes(error.message, "fetch")
            \/ MessageIncludes(error.message, "temporary")
            \/ MessageIncludes(error.message, "rate limit")
            \/ MessageIncludes(error.message, "server error")
         THEN TRUE
         ELSE TRUE

\* config.shouldRetry(error), the predicate being the default or the FAL one.
ShouldRetry_NeverGivesUp(config, error) == TRUE
ShouldRetry(config, error) ==
    IF config.shouldRetry = "FAL" THEN FalShouldRetry(error)
                                  ELSE DefaultShouldRetry(error)

\* The options a call site passes, merged over DEFAULT_OPTIONS.
RetryConfigs ==
    [ maxRetries     : 0 .. MaxRetriesBound,
      initialDelayMs : {DEFAULT_INITIAL_DELAY_MS, FAL_INITIAL_DELAY_MS},
      maxDelayMs     : {DEFAULT_MAX_DELAY_MS, SmallMaxDelayMs},
      shouldRetry    : {"DEFAULT", "FAL"} ]

\* Delays are kept exact by scaling: a delay of d ms is the integer
\* d * JitterScale.
JitterScale == 4 * JitterSteps

\* addJitter(delay) with Math.random() = rnd / JitterSteps:
\*   jitter = delay * 0.25 * (random * 2 - 1);  max(0, delay + jitter)
\* scaled by JitterScale.
addJitter_Half(delay, rnd) ==
    Max(0, delay * JitterScale + 2 * delay * (2 * rnd - JitterSteps))
addJitter(delay, rnd) ==
    Max(0, delay * JitterScale + delay * (2 * rnd - JitterSteps))

\* const baseDelay = initialDelayMs * 2^attempt; delay = min(baseDelay, maxDelayMs)
BackoffDelay_Uncapped(config, attempt) == config.initialDelayMs * Pow2(attempt)
BackoffDelay(config, attempt) ==
    Min(config.initialDelayMs * Pow2(attempt), config.maxDelayMs)

\* `attempt === config.maxRetries`
IsLastAttempt_OffByOne(attempt, config) == attempt + 1 = config.maxRetries
IsLastAttempt(attempt, config) == attempt = config.maxRetries

RetryInit ==
    /\ rt_pc = "idle"
    /\ rt_config = [maxRetries |-> DEFAULT_MAX_RETRIES,
                    initialDelayMs |-> DEFAULT_INITIAL_DELAY_MS,
                    maxDelayMs |-> DEFAULT_MAX_DELAY_MS,
                    shouldRetry |-> "DEFAULT"]
    /\ rt_attempt = 0
    /\ rt_lastError = NoError
    /\ rt_calls = 0
    /\ rt_errors = <<>>
    /\ rt_sleeps = <<>>
    /\ rt_thrown = NoError

\* retryWithExponentialBackoff(operation, options): the call starts, attempt = 0.
RetryStart(config) ==
    /\ rt_pc \in {"idle", "returned", "thrown"}
    /\ rt_pc' = "calling"
    /\ rt_config' = config
    /\ rt_attempt' = 0
    /\ rt_lastError' = NoError
    /\ rt_calls' = 0
    /\ rt_errors' = <<>>
    /\ rt_sleeps' = <<>>
    /\ rt_thrown' = NoError

\* `return await operation()` resolves.
OperationSucceeds ==
    /\ rt_pc = "calling"
    /\ rt_calls' = rt_calls + 1
    /\ rt_pc' = "returned"
    /\ UNCHANGED <<rt_config, rt_attempt, rt_lastError, rt_errors, rt_sleeps, rt_thrown>>

\* operation() rejects with an error of the given kind; the catch block runs up
\* to `throw error` or to `await sleep(jitteredDelay)`.
OperationFails(kind, rnd) ==
    /\ rt_pc = "calling"
    /\ LET error == [name |-> kind.name, message |-> kind.message, id |-> rt_calls + 1]
       IN /\ rt_calls' = rt_calls + 1
          /\ rt_lastError' = error
          /\ rt_errors' = Append(rt_errors, error)
          /\ IF ~ShouldRetry(rt_config, error)
             THEN /\ rt_thrown' = error
                  /\ rt_pc' = "thrown"
                  /\ UNCHANGED rt_sleeps
             ELSE IF IsLastAttempt(rt_attempt, rt_config)
             THEN /\ rt_thrown' = error
                  /\ rt_pc' = "thrown"
                  /\ UNCHANGED rt_sleeps
             ELSE /\ rt_sleeps' = Append(rt_sleeps,
                                         addJitter(BackoffDelay(rt_config, rt_attempt), rnd))
                  /\ rt_pc' = "sleeping"
                  /\ UNCHANGED rt_thrown
    /\ UNCHANGED <<rt_config, rt_attempt>>

\* sleep() resolves; attempt++ and the loop condition attempt <= maxRetries is
\* tested; past the loop, `throw lastError`.
SleepElapses ==
    /\ rt_pc = "sleeping"
    /\ rt_attempt' = rt_attempt + 1
    /\ IF rt_attempt + 1 <= rt_config.maxRetries
       THEN /\ rt_pc' = "calling"
            /\ UNCHANGED rt_thrown
       ELSE /\ rt_pc' = "thrown"
            /\ rt_thrown' = rt_lastError
    /\ UNCHANGED <<rt_config, rt_lastError, rt_calls, rt_errors, rt_sleeps>>

NextRetry ==
    \/ \E config \in RetryConfigs : RetryStart(config)
    \/ OperationSucceeds
    \/ \E kind \in ErrorKinds, rnd \in 0 .. (JitterSteps - 1) : OperationFails(kind, rnd)
    \/ SleepElapses


(***************************************************************************)
(*                          THE PROGRESS STORE                             *)
(***************************************************************************)

\* Bounds of the store model.
MaxSegs == 2          \* sessions handed to saveStoryProgress hold 0..MaxSegs segments

\* Program constants.
HISTORY_KEEP == 50
COMPLETED_KEEP == 20
INCOMPLETE_KEEP == 30

StoryIds == {"daniel", "david"}

\* A JavaScript object is a function from its keys to its values; `{}`.
EmptyObject == [k \in {} |-> 0]
\* obj[key] = value
Put(obj, key, value) ==
    [k \in DOMAIN obj \cup {key} |-> IF k = key THEN value ELSE obj[k]]
\* { ...p, ...q }
Spread(p, q) ==
    [k \in DOMAIN p \cup DOMAIN q |-> IF k \in DOMAIN q THEN q[k] ELSE p[k]]
\* obj.key || dflt, for a key that is absent (undefined) or present
GetOr(obj, key, dflt) == IF key \in DOMAIN obj THEN obj[key] ELSE dflt
\* obj without key
Drop(obj, key) == [k \in DOMAIN obj \ {key} |-> obj[k]]
\* seq.slice(-n)
SliceLast(seq, n) == SubSeq(seq, Max(1, Len(seq) - n + 1), Len(seq))
\* seq.map(f) is written [i \in 1 .. Len(seq) |-> f(seq[i])]

\* An image or clip URL: the provider that produced it and the prompt it was
\* produced for; `undefined` is NoUrl.
NoUrl == [src |-> "undefined", prompt |-> 0]
Null == [isNull |-> TRUE]

\* localStorage.getItem answers null, or the string that was stored.  A string
\* is modelled by the value it encodes and by whether it is JSON text.
NoItem == [text |-> "null"]
JSONstringify(value) == [text |-> "json", value |-> value]
JSONparses(str) == str.text = "json"
JSONparse(str) == str.value

\* compressProgressData: short keys, loading flags dropped, last 50 history
\* entries (lastUpdated, which no operation reads, is left out of the model).
compressProgressData(progressData) ==
    JSONstringify(
        [storyId \in DOMAIN progressData |->
            LET progress == progressData[storyId]
                segs == GetOr(progress, "segments", <<>>)
            IN [ s    |-> [i \in 1 .. Len(segs) |->
                              [ t   |-> segs[i].type,
                                txt |-> segs[i].text,
                                img |-> segs[i].imageUrl,
                                gif |-> segs[i].gifUrl ]],
                 c    |-> GetOr(progress, "currentChoices", <<>>),
                 h    |-> SliceLast(GetOr(progress, "storyHistory", <<>>), HISTORY_KEEP),
                 u    |-> GetOr(progress, "userChoiceCount", 0),
                 comp |-> GetOr(progress, "isCompleted", FALSE),
                 cd   |-> GetOr(progress, "completionDate", 0) ]])

\* decompressProgressData: JSON.parse, then the short keys back to the long ones.
decompressProgressData(compressedData) ==
    IF ~JSONparses(compressedData) THEN EmptyObject
    ELSE LET compressed == JSONparse(compressedData)
         IN [storyId \in DOMAIN compressed |->
                LET progress == compressed[storyId]
                    s == GetOr(progress, "s", <<>>)
                IN [ storyId         |-> storyId,
                     segments        |-> [i \in 1 .. Len(s) |->
                                            [ type           |-> s[i].t,
                                              text           |-> s[i].txt,
                                              imageUrl       |-> s[i].img,
                                              gifUrl         |-> s[i].gif,
                                              isLoadingImage |-> FALSE,
                                              isLoadingGif   |-> FALSE ]],
                     currentChoices  |-> GetOr(progress, "c", <<>>),
                     storyHistory    |-> GetOr(progress, "h", <<>>),
                     userChoiceCount |-> GetOr(progress, "u", 0),
                     isCompleted     |-> GetOr(progress, "comp", FALSE),
                     completionDate  |-> GetOr(progress, "cd", 0) ]]

\* cleanupOldProgressData: completed stories keep their last 20 segments and
\* history entries and lose their choices, the others keep their last 30.
cleanupOldProgressData(progressData) ==
    [storyId \in DOMAIN progressData |->
        LET progress == progressData[storyId]
        IN IF GetOr(progress, "isCompleted", FALSE)
           THEN Spread(progress,
                    [ segments       |-> SliceLast(GetOr(progress, "segments", <<>>), COMPLETED_KEEP),
                      storyHistory   |-> SliceLast(GetOr(progress, "storyHistory", <<>>), COMPLETED_KEEP),
                      currentChoices |-> <<>> ])
           ELSE Spread(progress,
                    [ segments     |-> SliceLast(GetOr(progress, "segments", <<>>), INCOMPLETE_KEEP),
                      storyHistory |-> SliceLast(GetOr(progress, "storyHistory", <<>>), INCOMPLETE_KEEP) ])]

\* loadAllProgress: {} when nothing is stored; JSON.parse of the item; only
\* when that parse throws, decompressProgressData.
loadAllProgress(item) ==
    IF item = NoItem THEN EmptyObject
    ELSE IF JSONparses(item) THEN JSONparse(item)
    ELSE decompressProgressData(item)

\* loadStoryProgress(storyId): allProgress[storyId] || null
loadStoryProgress(item, storyId) ==
    LET allProgress == loadAllProgress(item)
    IN IF storyId \in DOMAIN allProgress THEN allProgress[storyId] ELSE Null

\* The outcome of one localStorage.setItem: stored, rejected with the
\* QuotaExceededError DOMException, or rejected with another exception.
WriteOutcomes == {"ok", "quota", "error"}

\* The answers the storage layer can give to the setItem calls of one
\* saveStoryProgress, one answer per call made.
SaveOutcomes ==
    { <<"ok">>, <<"error">>, <<"quota", "ok">> }
    \cup { <<"quota", w2, w3>> : w2 \in {"quota", "error"}, w3 \in WriteOutcomes }

\* The contents saveStoryProgress writes, in the order it tries them.
SaveWrites_CleanupFirst(allProgress) ==
    << [enc |-> "verbose",    data |-> JSONstringify(allProgress)],
       [enc |-> "cleaned",    data |-> compressProgressData(cleanupOldProgressData(allProgress))],
       [enc |-> "compressed", data |-> compressProgressData(allProgress)] >>
SaveWrites(allProgress) ==
    << [enc |-> "verbose",    data |-> JSONstringify(allProgress)],
       [enc |-> "compressed", data |-> compressProgressData(allProgress)],
       [enc |-> "cleaned",    data |-> compressProgressData(cleanupOldProgressData(allProgress))] >>

\* How many setItem calls saveStoryProgress makes when the storage layer
\* answers w: the verbose write; on its QuotaExceededError the compressed
\* write; on any failure of that one the cleaned and compressed write.  Any
\* other exception of the verbose write leaves the inner try at once.
WritesMade(w) ==
    IF w[1] = "ok" THEN 1
    ELSE IF w[1] = "quota"
         THEN IF w[2] = "ok" THEN 2 ELSE 3
         ELSE 1

\* Whether an exception raised inside saveStoryProgress leaves the function:
\* the outer catch logs it and does not rethrow.
OuterCatchRethrows_Always(raised) == raised
OuterCatchRethrows(raised) == FALSE

\* A session as StoryPlayer hands it to saveStoryProgress: n segments,
\* narrator and user segments alternating, the last narrator segment possibly
\* still loading its image.
MkSegment(i, n, loading) ==
    LET narrator == (i % 2 = 1)
        pending == narrator /\ loading /\ i >= n - 1
    IN [ type           |-> IF narrator THEN "narrator" ELSE "user",
         text           |-> i,
         imageUrl       |-> IF narrator /\ ~pending
                            THEN [src |-> "gemini", prompt |-> i] ELSE NoUrl,
         gifUrl         |-> NoUrl,
         isLoadingImage |-> pending,
         isLoadingGif   |-> FALSE ]

MkProgress(n, completed, loading) ==
    [ segments        |-> [i \in 1 .. n |-> MkSegment(i, n, loading)],
      currentChoices  |-> IF completed THEN <<>> ELSE <<1, 2>>,
      storyHistory    |-> [i \in 1 .. n |-> i],
      userChoiceCount |-> n \div 2,
      isCompleted     |-> completed,
      completionDate  |-> IF completed THEN 1 ELSE 0 ]

ProgressInputs ==
    { MkProgress(n, completed, loading) :
        n \in 0 .. MaxSegs, completed \in BOOLEAN, loading \in BOOLEAN }
    \ { MkProgress(n, TRUE, TRUE) : n \in 1 .. MaxSegs }

NoProgress == [none |-> TRUE]

\* st_last: the operation, its arguments (the session is recorded when a
\* write succeeded), the encodings written with the storage layer's answer to
\* each, and whether an exception left the function.
NoStoreOp ==
    [ op |-> "none", storyId |-> "none", progress |-> NoProgress,
      attempts |-> <<>>, propagated |-> FALSE ]

StoreInit ==
    /\ ls_progress = NoItem
    /\ st_last = NoStoreOp

\* saveStoryProgress(storyId, progress) on the stored item `item`, the storage
\* layer answering w: the item afterwards and the record of the call.
\* localStorage is synchronous, so the whole function is one step.
saveStoryProgress(item, storyId, progress, w) ==
    LET loaded == loadAllProgress(item)
        storyProgress == Spread([storyId |-> storyId], progress)
        allProgress == Put(loaded, storyId, storyProgress)
        writes == SaveWrites(allProgress)
        made == WritesMade(w)
        stored == (w[made] = "ok")
    IN [ item |-> IF stored THEN writes[made].data ELSE item,
         last |-> [ op |-> "save", storyId |-> storyId,
                    progress |-> IF stored THEN progress ELSE NoProgress,
                    attempts |-> [i \in 1 .. made |->
                                     [enc |-> writes[i].enc, result |-> w[i]]],
                    propagated |-> OuterCatchRethrows(~stored) ] ]

\* forceCleanupStorage(): the stored sessions cleaned, compressed and written
\* back; a failure of the write is logged and swallowed.
forceCleanupStorage(item, w) ==
    LET allProgress == loadAllProgress(item)
        cleanedData == cleanupOldProgressData(allProgress)
        compressedData == compressProgressData(cleanedData)
    IN [ item |-> IF w = "ok" THEN compressedData ELSE item,
         last |-> [ op |-> "cleanup", storyId |-> "none", progress |-> NoProgress,
                    attempts |-> <<[enc |-> "cleaned", result |-> w]>>,
                    propagated |-> FALSE,
                    loaded |-> allProgress, cleaned |-> cleanedData ] ]

SaveStoryProgress(storyId, progress, w) ==
    LET r == saveStoryProgress(ls_progress, storyId, progress, w)
    IN /\ ls_progress' = r.item
       /\ st_last' = r.last

ForceCleanupStorage(w) ==
    LET r == forceCleanupStorage(ls_progress, w)
    IN /\ ls_progress' = r.item
       /\ st_last' = r.last

\* deleteAllProgress(): localStorage.removeItem(PROGRESS_KEY)
DeleteAllProgress ==
    /\ ls_progress # NoItem
    /\ ls_progress' = NoItem
    /\ st_last' = NoStoreOp

\* ---- what earlier sessions can have left in localStorage ----
\* A stored session of n segments; a completed one can hold choices when an
\* earlier version of the player saved it.
StoredStory(n, completed, pending) ==
    [MkProgress(n, completed, FALSE) EXCEPT !.currentChoices = pending]
\* Lengths around the two limits of cleanupOldProgressData.
StoredLengths ==
    { 0, COMPLETED_KEEP - 1, COMPLETED_KEEP, COMPLETED_KEEP + 1,
      INCOMPLETE_KEEP, INCOMPLETE_KEEP + 1, INCOMPLETE_KEEP + MaxSegs }
StoredStories ==
    { StoredStory(n, TRUE, pending) : n \in StoredLengths, pending \in {<<>>, <<1, 2>>} }
    \cup { StoredStory(n, FALSE, <<1, 2>>) : n \in StoredLengths }
    \cup { Drop(StoredStory(1, completed, <<1>>), "storyHistory") : completed \in BOOLEAN }
StoredProgress ==
    UNION { [ids -> StoredStories] : ids \in (SUBSET StoryIds) \ {{}} }
\* The item as saveStoryProgress writes it: verbose, or compressed.
StoredItems ==
    { JSONstringify([id \in DOMAIN d |-> Spread([storyId |-> id], d[id])]) : d \in StoredProgress }
    \cup { compressProgressData([id \in DOMAIN d |-> Spread([storyId |-> id], d[id])]) :
               d \in StoredProgress }

\* The player opens the app on what earlier sessions stored.
StoredInit ==
    /\ ls_progress \in StoredItems
    /\ st_last = NoStoreOp

NextCleanup ==
    \/ \E w \in WriteOutcomes : ForceCleanupStorage(w) /\ UNCHANGED <<rtVars, tlVars>>
    \/ DeleteAllProgress /\ UNCHANGED <<rtVars, tlVars>>

NextStore ==
    \/ \E storyId \in StoryIds, progress \in ProgressInputs, w \in SaveOutcomes :
           SaveStoryProgress(storyId, progress, w) /\ UNCHANGED <<rtVars, tlVars>>
    \/ \E w \in WriteOutcomes : ForceCleanupStorage(w) /\ UNCHANGED <<rtVars, tlVars>>
    \/ DeleteAllProgress /\ UNCHANGED <<rtVars, tlVars>>

(***************************************************************************)
(*                             THE TURN LOOP                               *)
(*                                                                         *)
(* A fresh session of one story (shouldContinue and isReplayMode false).   *)
(* Every await of fetchNextSegment, handleChoice and the detached media    *)
(* task is a point where the other callbacks can run; the code between two *)
(* awaits, the render that follows it and the auto-save effect of that     *)
(* render are one step.  Narration and clarification questions are not     *)
(* part of this specification.                                             *)
(***************************************************************************)

\* Bound of the turn-loop model.
MaxTurns == 2         \* the player starts at most MaxTurns turns in a session
MaxClipTurns == 3     \* ... and at most MaxClipTurns when clips are enabled

\* Program constant: detectRepetitiveContent's threshold.
REPETITIVE_MIN == 3

STORY_ID == "daniel"

\* ---- texts ----
\* A text is modelled by a label and by the occurrences of the eight
\* repetition markers in it, in order: which phrase of the list, and whether
\* it is spelled as in the list or in another case.
REPETITIVE_PHRASE_COUNT == 8
Marker(p, form) == [phrase |-> p, form |-> form]
repetitivePhrases == [p \in 1 .. REPETITIVE_PHRASE_COUNT |-> Marker(p, "as listed")]
\* A narrative returned by the provider for turn t, with the marker
\* occurrences k.
Narrative(t, k) == [label |-> "narrative", n |-> t, markers |-> k]
\* The marker occurrences of the narratives the provider returns: none; three
\* occurrences of two phrases; three phrases, in other cases than listed.
TwoMarkersThrice ==
    << Marker(4, "as listed"), Marker(5, "as listed"), Marker(4, "upper case") >>
ThreeMarkers ==
    << Marker(1, "upper case"), Marker(4, "as listed"), Marker(8, "upper case") >>
\* The two canned narratives of generateStorySegment's catch block.
FallbackNarrative(kind) ==
    IF kind = "quota"
    THEN [label |-> "The storyteller pauses, catching their breath.", n |-> 0, markers |-> <<>>]
    ELSE [label |-> "An unexpected silence falls upon the land.", n |-> 0, markers |-> <<>>]
PAUSED_NARRATIVE == [label |-> "The story seems to have paused.", n |-> 0, markers |-> <<>>]
\* JSON.stringify(response.lessons) of turn t
LessonsText(t) == [label |-> "lessons", n |-> t, markers |-> <<>>]
Option(c) == [label |-> "option", n |-> c, markers |-> <<>>]
CONTINUE_THE_STORY == [label |-> "Continue the story.", n |-> 0, markers |-> <<>>]
TRY_AGAIN_DOTS == [label |-> "Try again...", n |-> 0, markers |-> <<>>]
TRY_AGAIN == [label |-> "Try again", n |-> 0, markers |-> <<>>]

\* An image prompt: the scene it describes, the suffix a service appended to
\* it, and whether it is as the provider wrote it or trimmed and lower-cased.
ScenePrompt(scene) == [scene |-> scene, style |-> "scene", form |-> "as written"]
FALLBACK_PROMPT == ScenePrompt(0)
PLACEHOLDER_URL == [src |-> "placeholder", prompt |-> 0]

\* A segment; fields the code leaves out (undefined) are NoUrl and FALSE.
Segment(type, text, loading) ==
    [ type |-> type, text |-> text, imageUrl |-> NoUrl, gifUrl |-> NoUrl,
      isLoadingImage |-> loading, isLoadingGif |-> FALSE ]

\* storyHistory entries: `PROMPT: ...` and `RESPONSE: ...` of turn t.
PromptEntry(t) == [kind |-> "PROMPT", turn |-> t]
ResponseEntry(t) == [kind |-> "RESPONSE", turn |-> t]

\* The values fetchNextSegment's closure holds: useCallback's dependencies are
\* the profile name and description only, so the function handleChoice and
\* the mount effect call is the one created by the first render.
FirstRender == [segments |-> <<>>, userChoiceCount |-> 0, gifGeneratedCount |-> 0]

\* ---- the environment of a session ----
Environment(memory, key, fallback, configured) ==
    [ memoryAvailable |-> memory,      \* isMemoryAvailable()
      apiKey          |-> key,         \* VITE_GEMINI_KEY etc. is set (getAI)
      useFalFallback  |-> fallback,    \* loadFalSettings().useFalFallback
      falConfigured   |-> configured ] \* falService.isConfigured()
Configs ==
    { Environment(TRUE, TRUE, TRUE, TRUE),
      Environment(FALSE, TRUE, FALSE, TRUE),
      Environment(FALSE, FALSE, TRUE, FALSE) }
NoConfig == Environment(FALSE, FALSE, FALSE, FALSE)

\* What the auto-save effect meets in localStorage: whether usage is above
\* 80% (isStorageNearQuota), the answer to forceCleanupStorage's write and the
\* answers to saveStoryProgress's writes.
QuietStorage == [near |-> FALSE, cleanup |-> "ok", save |-> <<"ok">>]
\* In a session localStorage has room: the degraded writes are the subject of
\* SpecStore.
SessionStorageAnswers == { QuietStorage }

\* ---- the narrative client ----
\* What the provider's JSON can hold (narrative, imagePrompt and choices are
\* required by the response schema; choices may still come back empty, or be
\* left out).
ProviderResponse(scene, options, lessons, isComplete, markers) ==
    [ imagePrompt |-> ScenePrompt(scene), choices |-> options, lessons |-> lessons,
      isComplete |-> isComplete, markers |-> markers ]
ProviderResponses ==
    { ProviderResponse(1, <<Option(1)>>, <<>>, FALSE, <<>>),
      ProviderResponse(1, <<>>, <<"lesson">>, FALSE, <<>>),
      ProviderResponse(2, <<Option(1)>>, <<"lesson">>, FALSE, TwoMarkersThrice),
      ProviderResponse(2, <<Option(1)>>, <<>>, TRUE, <<>>),
      ProviderResponse(1, <<>>, <<"lesson">>, FALSE, ThreeMarkers),
      [ imagePrompt |-> ScenePrompt(2), lessons |-> <<>>, isComplete |-> FALSE,
        markers |-> <<>> ] }
ProviderAnswers ==
    { [failed |-> TRUE, kind |-> k] : k \in {"quota", "other"} }
    \cup { [failed |-> FALSE, json |-> r] : r \in ProviderResponses }

\* `if (!parsedResponse.choices || parsedResponse.choices.length === 0)
\*      parsedResponse.choices = ["Continue the story."]`
EnsureChoices_AsParsed(parsed) ==
    IF "choices" \notin DOMAIN parsed THEN <<>> ELSE parsed.choices
EnsureChoices(parsed) ==
    IF "choices" \notin DOMAIN parsed \/ Len(parsed.choices) = 0
    THEN <<CONTINUE_THE_STORY>>
    ELSE parsed.choices

\* generateStorySegment for turn t: getAI() throws outside the try when no key
\* is set; a provider failure yields the canned response flagged isFallback;
\* otherwise the parsed response, an empty choice list replaced by the default.
generateStorySegment(apiKey, answer, t) ==
    IF ~apiKey THEN [thrown |-> TRUE]
    ELSE IF answer.failed
    THEN [ thrown      |-> FALSE,
           narrative   |-> FallbackNarrative(answer.kind),
           imagePrompt |-> FALLBACK_PROMPT,
           choices     |-> <<TRY_AGAIN_DOTS>>,
           lessons     |-> <<"patience">>,
           isComplete  |-> FALSE,
           isFallback  |-> TRUE ]
    ELSE [ thrown      |-> FALSE,
           narrative   |-> Narrative(t, answer.json.markers),
           imagePrompt |-> answer.json.imagePrompt,
           choices     |-> EnsureChoices(answer.json),
           lessons     |-> answer.json.lessons,
           isComplete  |-> answer.json.isComplete ]

\* String.prototype.toLowerCase and String.prototype.includes on such texts.
toLowerCase(markers) ==
    [i \in 1 .. Len(markers) |-> [markers[i] EXCEPT !.form = "lower case"]]
includes(markers, phrase) == \E i \in 1 .. Len(markers) : markers[i] = phrase[1]

\* The reduce of detectRepetitiveContent with the phrases compared as listed.
detectRepetitiveContent_CaseSensitive(narrative) ==
    Cardinality({ p \in 1 .. REPETITIVE_PHRASE_COUNT :
                      includes(narrative.markers, <<repetitivePhrases[p]>>) })
        >= REPETITIVE_MIN

\* detectRepetitiveContent: each phrase of the list counts once when the
\* lower-cased narrative includes the lower-cased phrase.
detectRepetitiveContent(narrative) ==
    Cardinality({ p \in 1 .. REPETITIVE_PHRASE_COUNT :
                      includes(toLowerCase(narrative.markers),
                               toLowerCase(<<repetitivePhrases[p]>>)) })
        >= REPETITIVE_MIN

\* ---- the media cache ----
\* prompt.trim().toLowerCase()
NormalizePrompt(prompt) == [prompt EXCEPT !.form = "normalized"]
generateCacheKey(prompt, model, duration, mediaType) ==
    [ mediaType |-> mediaType, model |-> model, duration |-> duration,
      prompt |-> NormalizePrompt(prompt) ]
\* getCachedMediaBlob: the blob stored under the key, or null; a failure of
\* IndexedDB (dbOk false) is swallowed and answers null.
getCachedMediaBlob(cache, prompt, model, duration, mediaType, dbOk) ==
    LET key == generateCacheKey(prompt, model, duration, mediaType)
    IN IF dbOk /\ key \in DOMAIN cache THEN cache[key].mediaBlob ELSE Null
\* cacheMediaBlob: the entry put under the key; a failure is swallowed.
cacheMediaBlob(cache, prompt, mediaBlob, model, duration, mediaType, dbOk) ==
    IF ~dbOk THEN cache
    ELSE Put(cache, generateCacheKey(prompt, model, duration, mediaType),
             [ prompt |-> prompt, mediaBlob |-> mediaBlob, model |-> model,
               duration |-> duration, mediaType |-> mediaType ])

\* generateFallbackImage's enhanced prompt, model and cache key.
FalEnhancedPrompt(prompt) == [prompt EXCEPT !.style = "fal image"]
FAL_IMAGE_MODEL == "fal-ai/flux/dev"
FalImageKey(prompt) ==
    generateCacheKey(FalEnhancedPrompt(prompt), FAL_IMAGE_MODEL, 0, "image")

\* ---- initial state: before the first render's effects ----
TurnInit ==
    /\ mountRuns = 0
    /\ cfg = NoConfig
    /\ segments = <<>>
    /\ choices = <<>>
    /\ isLoading = TRUE
    /\ isGeneratingRef = FALSE
    /\ storyHistory = <<>>
    /\ userChoiceCount = 0
    /\ showCompletionModal = FALSE
    /\ turn = 0
    /\ pendingNarrative = <<>>
    /\ awaitingMemory = <<>>
    /\ mediaTasks = {}
    /\ mediaCache = EmptyObject
    /\ attachedBy = <<>>
    /\ failedTurns = {}
    /\ lastEvent = [op |-> "none"]

\* ---- the auto-save effect ----
\* Runs after a render in which segments, choices, userChoiceCount or
\* isLoading were set; saves when there are segments and no turn is loading,
\* after a forced cleanup when storage is nearly full.  Written over the
\* state the step produces.
AutoSaveEffect(storage) ==
    IF Len(segments') > 0 /\ ~isLoading'
    THEN LET item == IF storage.near
                     THEN forceCleanupStorage(ls_progress, storage.cleanup).item
                     ELSE ls_progress
             r == saveStoryProgress(item, STORY_ID,
                      [ segments        |-> segments',
                        currentChoices  |-> choices',
                        storyHistory    |-> storyHistory',
                        userChoiceCount |-> userChoiceCount',
                        isCompleted     |-> FALSE ],
                      storage.save)
         IN /\ ls_progress' = r.item
            /\ st_last' = r.last
    ELSE /\ storage = QuietStorage
         /\ UNCHANGED stVars

\* ---- fetchNextSegment, up to its first await ----
\* `if (isGeneratingRef.current) return`
AlreadyGenerating(ref) == ref

FetchNextSegmentStart(context) ==
    IF AlreadyGenerating(isGeneratingRef)
    THEN UNCHANGED <<isGeneratingRef, isLoading, choices, storyHistory,
                     pendingNarrative, turn>>
    ELSE /\ isGeneratingRef' = TRUE
         /\ isLoading' = TRUE
         /\ choices' = <<>>
         /\ storyHistory' = Append(storyHistory, PromptEntry(turn + 1))
         /\ pendingNarrative' = Append(pendingNarrative,
                [turn |-> turn + 1, context |-> context, before |-> storyHistory])
         /\ turn' = turn + 1

\* The mount effect of a fresh session: starts the story.  Under StrictMode
\* React runs it a second time right after the first.
MountEffect(c) ==
    /\ mountRuns < 2
    /\ mountRuns = 0 => turn < MaxTurns
    /\ mountRuns = 1 => (lastEvent.op = "mountEffect" /\ c = cfg)
    /\ Len(FirstRender.segments) = 0
    /\ mountRuns' = mountRuns + 1
    /\ cfg' = c
    /\ FetchNextSegmentStart(<<>>)
    /\ lastEvent' = [op |-> "mountEffect", accepted |-> ~AlreadyGenerating(isGeneratingRef)]
    /\ UNCHANGED <<segments, userChoiceCount, showCompletionModal, awaitingMemory,
                   mediaTasks, mediaCache, attachedBy, failedTurns, stVars>>

\* How many turns of a session are followed: more when clips are enabled.
TurnBound == IF falSettings.enabled THEN MaxClipTurns ELSE MaxTurns

\* ---- handleChoice ----
\* `if (isLoading) return`
ChoiceBlocked_Never(loading) == FALSE
ChoiceBlocked(loading) == loading

\* handleChoice(choice), up to `await trackChoice` when the memory service is
\* available, else through fetchNextSegment's start.  It is invoked from a
\* rendered choice button, or while a turn is loading.
HandleChoice(choice, storage) ==
    /\ mountRuns > 0
    /\ \/ isLoading /\ choice = TRY_AGAIN
       \/ ~isLoading /\ \E i \in 1 .. Len(choices) : choices[i] = choice
    /\ IF ChoiceBlocked(isLoading)
       THEN /\ lastEvent' = [op |-> "handleChoice", accepted |-> FALSE]
            /\ storage = QuietStorage
            /\ UNCHANGED <<mountRuns, cfg, segments, choices, isLoading,
                           isGeneratingRef, storyHistory, userChoiceCount,
                           showCompletionModal, turn, pendingNarrative,
                           awaitingMemory, mediaTasks, mediaCache, attachedBy,
                           failedTurns, stVars>>
       ELSE /\ turn + Len(awaitingMemory) < TurnBound
            /\ segments' = Append(segments, Segment("user", choice, FALSE))
            /\ attachedBy' = Append(attachedBy, 0)
            /\ userChoiceCount' = userChoiceCount + 1
            /\ IF cfg.memoryAvailable
               THEN /\ awaitingMemory' = Append(awaitingMemory, choice)
                    /\ choices' = <<>>
                    /\ UNCHANGED <<isGeneratingRef, isLoading, storyHistory,
                                   pendingNarrative, turn>>
               ELSE /\ UNCHANGED awaitingMemory
                    /\ IF AlreadyGenerating(isGeneratingRef)
                       THEN /\ choices' = <<>>
                            /\ UNCHANGED <<isGeneratingRef, isLoading, storyHistory,
                                           pendingNarrative, turn>>
                       ELSE FetchNextSegmentStart(storyHistory)
            /\ lastEvent' = [op |-> "handleChoice", accepted |-> TRUE]
            /\ UNCHANGED <<mountRuns, cfg, showCompletionModal, mediaTasks,
                           mediaCache, failedTurns>>
            /\ AutoSaveEffect(storage)

\* trackChoice settles (its rejection is caught and logged): handleChoice
\* builds the prompt from the history as it is now and calls fetchNextSegment.
TrackChoiceReturns ==
    /\ Len(awaitingMemory) > 0
    /\ awaitingMemory' = Tail(awaitingMemory)
    /\ FetchNextSegmentStart(storyHistory)
    /\ lastEvent' = [op |-> "trackChoiceReturns",
                     accepted |-> ~AlreadyGenerating(isGeneratingRef)]
    /\ UNCHANGED <<mountRuns, cfg, segments, userChoiceCount, showCompletionModal,
                   mediaTasks, mediaCache, attachedBy, failedTurns, stVars>>

\* ---- fetchNextSegment, after `await generateStorySegment(prompt)` ----
\* storyHistory.current.pop()
Pop_Keep(history) == history
Pop(history) ==
    IF Len(history) = 0 THEN history ELSE SubSeq(history, 1, Len(history) - 1)

RemoveAt(seq, i) == SubSeq(seq, 1, i - 1) \o SubSeq(seq, i + 1, Len(seq))

\* The narrative call threw: the outer catch and the finally block.
NarrativeThrows(i, storage) ==
    LET req == pendingNarrative[i]
    IN /\ isLoading' = FALSE
       /\ isGeneratingRef' = FALSE
       /\ storyHistory' = Pop(storyHistory)
       /\ segments' = Append(segments, Segment("narrator", PAUSED_NARRATIVE, FALSE))
       /\ attachedBy' = Append(attachedBy, 0)
       /\ choices' = <<TRY_AGAIN>>
       /\ failedTurns' = failedTurns \cup {req.turn}
       /\ lastEvent' = [op |-> "narrativeReturns", turn |-> req.turn,
                        outcome |-> "throws", before |-> req.before]
       /\ UNCHANGED <<userChoiceCount, showCompletionModal, mediaTasks>>
       /\ AutoSaveEffect(storage)

\* The response is the degraded fallback: lines 338-353.
NarrativeFallsBack_Loading(i, answer, response, storage) ==
    LET req == pendingNarrative[i]
    IN /\ storyHistory' = Pop(storyHistory)
       /\ segments' = Append(segments, Segment("narrator", response.narrative, TRUE))
       /\ attachedBy' = Append(attachedBy, 0)
       /\ choices' = response.choices
       /\ isLoading' = FALSE
       /\ isGeneratingRef' = FALSE
       /\ failedTurns' = failedTurns \cup {req.turn}
       /\ lastEvent' = [op |-> "narrativeReturns", turn |-> req.turn,
                        outcome |-> "fallback", before |-> req.before,
                        response |-> response, answer |-> answer]
       /\ UNCHANGED <<userChoiceCount, showCompletionModal, mediaTasks>>
       /\ AutoSaveEffect(storage)
NarrativeFallsBack(i, answer, response, storage) ==
    LET req == pendingNarrative[i]
    IN /\ storyHistory' = Pop(storyHistory)
       /\ segments' = Append(segments, Segment("narrator", response.narrative, FALSE))
       /\ attachedBy' = Append(attachedBy, 0)
       /\ choices' = response.choices
       /\ isLoading' = FALSE
       /\ isGeneratingRef' = FALSE
       /\ failedTurns' = failedTurns \cup {req.turn}
       /\ lastEvent' = [op |-> "narrativeReturns", turn |-> req.turn,
                        outcome |-> "fallback", before |-> req.before,
                        response |-> response, answer |-> answer]
       /\ UNCHANGED <<userChoiceCount, showCompletionModal, mediaTasks>>
       /\ AutoSaveEffect(storage)

\* The response completes the story: lines 374-387, then the finally block.
\* The session is saved from the closure's segments and choice count; the
\* loading state is left set.
NarrativeCompletes(i, answer, response, storage) ==
    LET req == pendingNarrative[i]
        newNarratorSegment == Segment("narrator", response.narrative, TRUE)
        r == saveStoryProgress(ls_progress, STORY_ID,
                 [ segments        |-> Append(FirstRender.segments, newNarratorSegment),
                   currentChoices  |-> <<>>,
                   storyHistory    |-> Append(storyHistory, ResponseEntry(req.turn)),
                   userChoiceCount |-> FirstRender.userChoiceCount,
                   isCompleted     |-> TRUE,
                   completionDate  |-> 1 ],
                 storage.save)
    IN /\ ~storage.near
       /\ storyHistory' = Append(storyHistory, ResponseEntry(req.turn))
       /\ showCompletionModal' = TRUE
       /\ ls_progress' = r.item
       /\ st_last' = r.last
       /\ isGeneratingRef' = FALSE
       /\ lastEvent' = [op |-> "narrativeReturns", turn |-> req.turn,
                        outcome |-> "complete", before |-> req.before,
                        response |-> response, answer |-> answer]
       /\ gifError' = Null
       /\ UNCHANGED <<segments, attachedBy, choices, isLoading, userChoiceCount,
                      failedTurns, mediaTasks>>

\* ---- the clip decision ----
\* settings.fal as getDefaultSettings builds it (useFalFallback is part of the
\* session's environment, cfg).
FAL_SESSION_LIMIT == 10
DefaultFalSettings ==
    [enabled |-> FALSE, sessionLimit |-> FAL_SESSION_LIMIT, currentSessionCount |-> 0]
GIFS_PER_STORY == 2

\* `response.isImportantScene && falSettings.enabled &&
\*  falSettings.currentSessionCount < falSettings.sessionLimit &&
\*  falService.isConfigured() && gifGeneratedCount < 2`, where gifGeneratedCount
\* is the value fetchNextSegment's closure holds.
shouldGenerateGif(response, fal, configured, closureCount) ==
    /\ GetOr(response, "isImportantScene", FALSE)
    /\ fal.enabled
    /\ fal.currentSessionCount < fal.sessionLimit
    /\ configured
    /\ closureCount < GIFS_PER_STORY

\* findLastIndex(s => s.type === 'narrator'), counted from 1; 0 for -1.
LastNarratorIndex(segs) ==
    LET narrators == {i \in 1 .. Len(segs) : segs[i].type = "narrator"}
    IN IF narrators = {} THEN 0
       ELSE CHOOSE i \in narrators : \A j \in narrators : j <= i

\* The response continues the story: lines 356-412 and the start of the
\* detached media task, lines 415-450.  The task loads the clip settings and
\* decides; when it decides for a clip it marks the last narrator segment and
\* has called generateGIF, which has reached its cache lookup when the step
\* ends; otherwise it has called generateSceneImageWithCharacters.
NarrativeContinues(i, answer, response, storage) ==
    LET req == pendingNarrative[i]
        newNarratorSegment == Segment("narrator", response.narrative, TRUE)
        withNarrator == Append(segments, newNarratorSegment)
        hasLessons == Len(response.lessons) > 0
        appended == IF hasLessons
                    THEN Append(withNarrator, Segment("lesson", LessonsText(req.turn), FALSE))
                    ELSE withNarrator
        fal == falSettings
        clip == shouldGenerateGif(response, fal, cfg.falConfigured,
                                  FirstRender.gifGeneratedCount)
        n == LastNarratorIndex(appended)
    IN /\ storyHistory' = Append(storyHistory, ResponseEntry(req.turn))
       /\ segments' = IF clip
                      THEN [appended EXCEPT ![n] = [@ EXCEPT !.isLoadingGif = TRUE]]
                      ELSE appended
       /\ attachedBy' = IF hasLessons THEN attachedBy \o <<0, 0>> ELSE Append(attachedBy, 0)
       /\ choices' = response.choices
       /\ isLoading' = FALSE
       /\ isGeneratingRef' = FALSE
       /\ gifError' = IF clip THEN Null ELSE gifError
       /\ mediaTasks' = mediaTasks \cup
              {[turn |-> req.turn, prompt |-> response.imagePrompt,
                pc |-> IF clip THEN "gifCache" ELSE "gemini", fal |-> fal]}
       /\ lastEvent' = [op |-> "narrativeReturns", turn |-> req.turn,
                        outcome |-> "ok", before |-> req.before,
                        response |-> response, answer |-> answer,
                        clip |-> clip, fal |-> fal, generated |-> gifGeneratedCount]
       /\ UNCHANGED <<userChoiceCount, showCompletionModal, failedTurns>>
       /\ AutoSaveEffect(storage)

\* fetchNextSegment after `await generateStorySegment`, for the response the
\* call produced.
FetchNextSegmentResumes(i, answer, response, storage) ==
    /\ i \in 1 .. Len(pendingNarrative)
    /\ ~cfg.apiKey => answer = [failed |-> TRUE, kind |-> "other"]
    /\ pendingNarrative' = RemoveAt(pendingNarrative, i)
    /\ UNCHANGED <<mountRuns, cfg, turn, awaitingMemory, mediaCache>>
    /\ IF response.thrown THEN NarrativeThrows(i, storage)
       ELSE IF GetOr(response, "isFallback", FALSE)
       THEN NarrativeFallsBack(i, answer, response, storage)
       ELSE IF response.isComplete \/ detectRepetitiveContent(response.narrative)
       THEN NarrativeCompletes(i, answer, response, storage)
       ELSE NarrativeContinues(i, answer, response, storage)

NarrativeReturns(i, answer, storage) ==
    /\ i \in 1 .. Len(pendingNarrative)
    /\ FetchNextSegmentResumes(i, answer,
           generateStorySegment(cfg.apiKey, answer, pendingNarrative[i].turn), storage)

\* ---- the detached media task ----
\* The last segment, whatever its type.
ImageTarget_LastSegment(segs) == Len(segs)

\* The segment the image update picks: scanning backwards, the first narrator
\* segment whose isLoadingImage is set; 0 when there is none.
ImageTarget(segs) ==
    LET loadingNarrators ==
            {i \in 1 .. Len(segs) : segs[i].type = "narrator" /\ segs[i].isLoadingImage}
    IN IF loadingNarrators = {} THEN 0
       ELSE CHOOSE i \in loadingNarrators : \A j \in loadingNarrators : j <= i

\* The update of lines 557-570 with the choices taken back.
AttachImage_ClearsChoices(task, imageUrl, storage) ==
    LET i == ImageTarget(segments)
    IN /\ segments' = IF i = 0 THEN segments
                      ELSE [segments EXCEPT ![i] =
                               [@ EXCEPT !.imageUrl = imageUrl, !.isLoadingImage = FALSE]]
       /\ attachedBy' = IF i = 0 THEN attachedBy ELSE [attachedBy EXCEPT ![i] = task.turn]
       /\ mediaTasks' = mediaTasks \ {task}
       /\ choices' = <<>>
       /\ UNCHANGED <<mountRuns, cfg, isLoading, isGeneratingRef, storyHistory,
                      userChoiceCount, showCompletionModal, turn, pendingNarrative,
                      awaitingMemory, failedTurns>>
       /\ AutoSaveEffect(storage)

\* `setSegments(prev => ...)` of lines 557-570, which ends the task.
AttachImage(task, imageUrl, storage) ==
    LET i == ImageTarget(segments)
    IN /\ segments' = IF i = 0 THEN segments
                      ELSE [segments EXCEPT ![i] =
                               [@ EXCEPT !.imageUrl = imageUrl, !.isLoadingImage = FALSE]]
       /\ attachedBy' = IF i = 0 THEN attachedBy ELSE [attachedBy EXCEPT ![i] = task.turn]
       /\ mediaTasks' = mediaTasks \ {task}
       /\ UNCHANGED <<mountRuns, cfg, choices, isLoading, isGeneratingRef, storyHistory,
                      userChoiceCount, showCompletionModal, turn, pendingNarrative,
                      awaitingMemory, failedTurns>>
       /\ AutoSaveEffect(storage)

\* The task moves to its next await; nothing is rendered.
MoveTask(task, pc) ==
    /\ mediaTasks' = (mediaTasks \ {task}) \cup {[task EXCEPT !.pc = pc]}
    /\ UNCHANGED <<mountRuns, cfg, segments, choices, isLoading, isGeneratingRef,
                   storyHistory, userChoiceCount, showCompletionModal, turn,
                   pendingNarrative, awaitingMemory, attachedBy, failedTurns, stVars>>

\* generateSceneImageWithCharacters settles (a timeout is a failure).  On a
\* failure the fal fallback is tried when enabled and configured, and has
\* reached its cache lookup when the step ends; else the placeholder is used.
GeminiImageReturns(task, ok, storage) ==
    /\ task \in mediaTasks
    /\ task.pc = "gemini"
    /\ lastEvent' = [op |-> "geminiImageReturns", turn |-> task.turn, ok |-> ok]
    /\ UNCHANGED mediaCache
    /\ IF ok
       THEN AttachImage(task, [src |-> "gemini", prompt |-> task.prompt.scene], storage)
       ELSE IF cfg.useFalFallback /\ cfg.falConfigured
       THEN storage = QuietStorage /\ MoveTask(task, "falCache")
       ELSE AttachImage(task, PLACEHOLDER_URL, storage)

\* generateFallbackImage: getCachedMediaBlob answers.  A hit is returned as
\* the image; on a miss the provider has been called when the step ends.
FalCacheAnswers(task, dbOk, storage) ==
    /\ task \in mediaTasks
    /\ task.pc = "falCache"
    /\ UNCHANGED mediaCache
    /\ LET cachedBlob == getCachedMediaBlob(mediaCache, FalEnhancedPrompt(task.prompt),
                                            FAL_IMAGE_MODEL, 0, "image", dbOk)
       IN /\ lastEvent' = [op |-> "falCacheAnswers", turn |-> task.turn,
                           hit |-> cachedBlob # Null, dbOk |-> dbOk]
          /\ IF cachedBlob # Null
             THEN AttachImage(task, cachedBlob, storage)
             ELSE storage = QuietStorage /\ MoveTask(task, "falProvider")

\* generateFallbackImage: the provider call (with its retries) and the fetch
\* of the image settle.  On success the blob is cached, then returned; on
\* failure the placeholder is used.
FalImageReturns(task, ok, dbOk, storage) ==
    /\ task \in mediaTasks
    /\ task.pc = "falProvider"
    /\ ~ok => dbOk
    /\ lastEvent' = [op |-> "falImageReturns", turn |-> task.turn, ok |-> ok,
                     dbOk |-> dbOk, prompt |-> task.prompt]
    /\ LET imageBlob == [src |-> "fal", prompt |-> task.prompt.scene]
       IN IF ok
          THEN /\ mediaCache' = cacheMediaBlob(mediaCache, FalEnhancedPrompt(task.prompt),
                                               imageBlob, FAL_IMAGE_MODEL, 0, "image", dbOk)
               /\ AttachImage(task, imageBlob, storage)
          ELSE /\ UNCHANGED mediaCache
               /\ AttachImage(task, PLACEHOLDER_URL, storage)

\* ---- timeouts ----
\* generateSceneImageWithCharacters races the provider call against a 60 s
\* timer: when the timer fires first the call rejects, and the task goes on
\* as after a failure.  generateStorySegment and generateFallbackImage await
\* their provider without a timer.
GeminiImageTimesOut(task, storage) == GeminiImageReturns(task, FALSE, storage)

AllChoices == {Option(1), CONTINUE_THE_STORY, TRY_AGAIN_DOTS, TRY_AGAIN}

NextTurn ==
    \/ \E c \in Configs : MountEffect(c) /\ UNCHANGED rtVars
    \/ \E choice \in AllChoices, storage \in SessionStorageAnswers :
           HandleChoice(choice, storage) /\ UNCHANGED rtVars
    \/ TrackChoiceReturns /\ UNCHANGED rtVars
    \/ \E i \in 1 .. Len(pendingNarrative), answer \in ProviderAnswers,
          storage \in SessionStorageAnswers :
           NarrativeReturns(i, answer, storage) /\ UNCHANGED rtVars
    \/ \E task \in mediaTasks, ok \in BOOLEAN, storage \in SessionStorageAnswers :
           GeminiImageReturns(task, ok, storage) /\ UNCHANGED rtVars
    \/ \E task \in mediaTasks, dbOk \in BOOLEAN, storage \in SessionStorageAnswers :
           FalCacheAnswers(task, dbOk, storage) /\ UNCHANGED rtVars
    \/ \E task \in mediaTasks, ok \in BOOLEAN, dbOk \in BOOLEAN,
          storage \in SessionStorageAnswers :
           FalImageReturns(task, ok, dbOk, storage) /\ UNCHANGED rtVars

\* ---- handleAskQuestion ----
MaxQuestions == 1     \* the player submits the question box at most MaxQuestions times
\* What the player typed: a question, or nothing but blanks.
Question(q) == [label |-> "question", n |-> q, markers |-> <<>>]
BLANK_QUESTION == [label |-> "blank", n |-> 0, markers |-> <<>>]
\* `question.trim()`: the empty string, which is falsy, for blanks.
TrimmedIsEmpty(text) == text.label = "blank"

\* What generateClarification returns: the provider's text, or one of the two
\* apologies of its catch block.
ClarificationText(q) == [label |-> "clarification", n |-> q, markers |-> <<>>]
UNABLE_TO_ANSWER == [label |-> "unable to answer at this moment", n |-> 0, markers |-> <<>>]
COULD_NOT_PROCESS == [label |-> "couldn't process that question", n |-> 0, markers |-> <<>>]
ClarificationAnswers == {"ok", "quota", "other"}
generateClarification(apiKey, answer, q) ==
    IF ~apiKey THEN [thrown |-> TRUE]   \* getAI() is called outside the try block
    ELSE [ thrown |-> FALSE,
           text |-> CASE answer = "ok"    -> ClarificationText(q)
                      [] answer = "quota" -> UNABLE_TO_ANSWER
                      [] OTHER            -> COULD_NOT_PROCESS ]

AskInit ==
    /\ isAnswering = FALSE
    /\ pendingClarification = <<>>
    /\ askCount = 0

\* `if (!question.trim() || isLoading || isAnswering) return`
AskBlocked(text, loading, answering) == TrimmedIsEmpty(text) \/ loading \/ answering

\* handleAskQuestion up to `await generateClarification`.
HandleAskQuestion(text, storage) ==
    /\ mountRuns > 0
    /\ askCount < MaxQuestions
    /\ askCount' = askCount + 1
    /\ UNCHANGED <<mountRuns, cfg, choices, isLoading, isGeneratingRef, storyHistory,
                   userChoiceCount, showCompletionModal, turn, pendingNarrative,
                   awaitingMemory, mediaTasks, mediaCache, failedTurns>>
    /\ IF AskBlocked(text, isLoading, isAnswering)
       THEN /\ lastEvent' = [op |-> "askQuestion", accepted |-> FALSE]
            /\ storage = QuietStorage
            /\ UNCHANGED <<isAnswering, pendingClarification, segments, attachedBy, stVars>>
       ELSE /\ isAnswering' = TRUE
            /\ segments' = Append(segments, Segment("question", text, FALSE))
            /\ attachedBy' = Append(attachedBy, 0)
            /\ pendingClarification' = Append(pendingClarification, text)
            /\ lastEvent' = [op |-> "askQuestion", accepted |-> TRUE, question |-> text]
            /\ AutoSaveEffect(storage)

\* The list up to its last question.
UpToLastQuestion(segs) ==
    LET asked == {k \in 1 .. Len(segs) : segs[k].type = "question"}
    IN IF asked = {} THEN segs
       ELSE SubSeq(segs, 1, CHOOSE k \in asked : \A j \in asked : j <= k)

\* The handler with the answer appended to the list its own render held,
\* `setSegments([...segments, questionSegment, answerSegment])`.
ClarificationReturns_Stale(i, answer, storage) ==
    /\ i \in 1 .. Len(pendingClarification)
    /\ UNCHANGED <<askCount, mountRuns, cfg, choices, isLoading, isGeneratingRef,
                   storyHistory, userChoiceCount, showCompletionModal, turn,
                   pendingNarrative, awaitingMemory, mediaTasks, mediaCache,
                   failedTurns>>
    /\ LET text == pendingClarification[i]
           r == generateClarification(cfg.apiKey, answer, text.n)
       IN /\ pendingClarification' = SubSeq(pendingClarification, 1, i - 1)
                                     \o SubSeq(pendingClarification, i + 1,
                                               Len(pendingClarification))
          /\ IF r.thrown
             THEN /\ lastEvent' = [op |-> "clarificationReturns", outcome |-> "throws",
                                   question |-> text]
                  /\ answer = "other"
                  /\ storage = QuietStorage
                  /\ UNCHANGED <<isAnswering, segments, attachedBy, stVars>>
             ELSE /\ segments' = Append(UpToLastQuestion(segments),
                                     Segment("answer", r.text, FALSE))
                  /\ attachedBy' = Append(SubSeq(attachedBy, 1,
                                                 Len(UpToLastQuestion(segments))), 0)
                  /\ isAnswering' = FALSE
                  /\ lastEvent' = [op |-> "clarificationReturns", outcome |-> "ok",
                                   question |-> text, answer |-> r.text]
                  /\ AutoSaveEffect(storage)

\* handleAskQuestion after the await: the answer is appended and the input
\* released; when generateClarification rejects, the handler ends there.
ClarificationReturns(i, answer, storage) ==
    /\ i \in 1 .. Len(pendingClarification)
    /\ UNCHANGED <<askCount, mountRuns, cfg, choices, isLoading, isGeneratingRef,
                   storyHistory, userChoiceCount, showCompletionModal, turn,
                   pendingNarrative, awaitingMemory, mediaTasks, mediaCache,
                   failedTurns>>
    /\ LET text == pendingClarification[i]
           r == generateClarification(cfg.apiKey, answer, text.n)
       IN /\ pendingClarification' = SubSeq(pendingClarification, 1, i - 1)
                                     \o SubSeq(pendingClarification, i + 1,
                                               Len(pendingClarification))
          /\ IF r.thrown
             THEN /\ lastEvent' = [op |-> "clarificationReturns", outcome |-> "throws",
                                   question |-> text]
                  /\ answer = "other"
                  /\ storage = QuietStorage
                  /\ UNCHANGED <<isAnswering, segments, attachedBy, stVars>>
             ELSE /\ segments' = Append(segments, Segment("answer", r.text, FALSE))
                  /\ attachedBy' = Append(attachedBy, 0)
                  /\ isAnswering' = FALSE
                  /\ lastEvent' = [op |-> "clarificationReturns", outcome |-> "ok",
                                   question |-> text, answer |-> r.text]
                  /\ AutoSaveEffect(storage)

\* The turn loop with the question box, in sessions with and without a key
\* for the provider and without the fal image fallback; the provider returns
\* a scene with a choice and a lesson, or fails.
Questions == { BLANK_QUESTION, Question(1) }
AskConfigs ==
    { Environment(FALSE, TRUE, FALSE, FALSE), Environment(FALSE, FALSE, FALSE, FALSE) }
AskProviderAnswers ==
    { [failed |-> TRUE, kind |-> "other"],
      [failed |-> FALSE,
       json |-> ProviderResponse(1, <<Option(1)>>, <<"lesson">>, FALSE, <<>>)] }
NextAsk ==
    \/ \E c \in AskConfigs : MountEffect(c) /\ UNCHANGED <<rtVars, aqVars>>
    \/ \E choice \in AllChoices, storage \in SessionStorageAnswers :
           HandleChoice(choice, storage) /\ UNCHANGED <<rtVars, aqVars>>
    \/ \E i \in 1 .. Len(pendingNarrative), answer \in AskProviderAnswers,
          storage \in SessionStorageAnswers :
           NarrativeReturns(i, answer, storage) /\ UNCHANGED <<rtVars, aqVars>>
    \/ \E task \in mediaTasks, ok \in BOOLEAN, storage \in SessionStorageAnswers :
           GeminiImageReturns(task, ok, storage) /\ UNCHANGED <<rtVars, aqVars>>
    \/ \E text \in Questions, storage \in SessionStorageAnswers :
           HandleAskQuestion(text, storage) /\ UNCHANGED rtVars
    \/ \E i \in 1 .. Len(pendingClarification), answer \in ClarificationAnswers,
          storage \in SessionStorageAnswers :
           ClarificationReturns(i, answer, storage) /\ UNCHANGED rtVars

\* ---- the turn loop on a browser whose localStorage is filling up ----
\* What the auto-save effect can meet there: room; the verbose write rejected
\* for capacity and the compressed one accepted; usage above 80%, so that
\* forceCleanupStorage runs first; every write rejected.
PressureStorageAnswers ==
    { QuietStorage,
      [near |-> FALSE, cleanup |-> "ok", save |-> <<"quota", "ok">>],
      [near |-> TRUE, cleanup |-> "ok", save |-> <<"ok">>],
      [near |-> FALSE, cleanup |-> "ok", save |-> <<"quota", "quota", "quota">>] }

\* Sessions with a key for the narrative provider and no fal image fallback,
\* with and without the memory service.
PressureConfigs ==
    { Environment(TRUE, TRUE, FALSE, FALSE), Environment(FALSE, TRUE, FALSE, FALSE) }

NextPressure ==
    \/ \E c \in PressureConfigs : MountEffect(c) /\ UNCHANGED rtVars
    \/ \E choice \in AllChoices, storage \in PressureStorageAnswers :
           HandleChoice(choice, storage) /\ UNCHANGED rtVars
    \/ TrackChoiceReturns /\ UNCHANGED rtVars
    \/ \E i \in 1 .. Len(pendingNarrative), answer \in ProviderAnswers,
          storage \in PressureStorageAnswers :
           NarrativeReturns(i, answer, storage) /\ UNCHANGED rtVars
    \/ \E task \in mediaTasks, ok \in BOOLEAN, storage \in PressureStorageAnswers :
           GeminiImageReturns(task, ok, storage) /\ UNCHANGED rtVars

\* The turn loop with the timer of the image call.
NextLive ==
    \/ NextTurn
    \/ \E task \in mediaTasks, storage \in SessionStorageAnswers :
           GeminiImageTimesOut(task, storage) /\ UNCHANGED rtVars

\* What is certain to happen: a timer that was set fires, and the calls that
\* stay in the browser (the memory service, IndexedDB) answer.  A provider
\* may never respond, and the player need not choose.
LiveFairness ==
    /\ WF_vars(\E task \in mediaTasks, storage \in SessionStorageAnswers :
                   GeminiImageTimesOut(task, storage) /\ UNCHANGED <<rtVars, nrVars, chVars, clVars, seVars, aqVars>>)
    /\ WF_vars(TrackChoiceReturns /\ UNCHANGED <<rtVars, nrVars, chVars, clVars, seVars, aqVars>>)
    /\ WF_vars(\E task \in mediaTasks, dbOk \in BOOLEAN, storage \in SessionStorageAnswers :
                   FalCacheAnswers(task, dbOk, storage) /\ UNCHANGED <<rtVars, nrVars, chVars, clVars, seVars, aqVars>>)


(***************************************************************************)
(*                                CLIPS                                    *)
(***************************************************************************)
\* The detached media task on its clip branch (StoryPlayer.tsx 436-512) and
\* generateGIF.  The branch is entered for a response whose isImportantScene
\* is set.  GeminiStoryResponse declares the field; generateStorySegment as
\* written builds its result from narrative, imagePrompt, choices, lessons,
\* isComplete and location, so under NextTurn no response carries it.  The
\* actions below follow fetchNextSegment for every response of the declared
\* type.

ClipInit ==
    /\ falSettings = DefaultFalSettings
    /\ gifGeneratedCount = 0
    /\ gifError = Null

\* The clip settings a session can find in localStorage.
FalSettingsInputs ==
    { [enabled |-> e, sessionLimit |-> l, currentSessionCount |-> c] :
          e \in BOOLEAN, l \in {1, FAL_SESSION_LIMIT},
          c \in {0, FAL_SESSION_LIMIT - 1} }

\* The environments the clip sessions run in: a key for the narrative
\* provider, no memory service, no fal image fallback.
ClipConfigs ==
    { Environment(FALSE, TRUE, FALSE, TRUE), Environment(FALSE, TRUE, FALSE, FALSE) }

\* The responses of the clip sessions, before the flag.
ClipAnswers ==
    { [failed |-> FALSE, json |-> ProviderResponse(1, <<Option(1)>>, <<>>, FALSE, <<>>)] }

\* saveFalSettings from the settings screen, before the story is opened.
FalSettingsStored(fal) ==
    /\ mountRuns = 0
    /\ falSettings = DefaultFalSettings
    /\ fal # DefaultFalSettings
    /\ falSettings' = fal
    /\ UNCHANGED <<gifGeneratedCount, gifError, tlVars, stVars>>

\* fetchNextSegment after `await generateStorySegment`, for a response with
\* the given isImportantScene.
ImportantSceneReturns(i, answer, important, storage) ==
    /\ i \in 1 .. Len(pendingNarrative)
    /\ cfg.apiKey
    /\ UNCHANGED <<falSettings, gifGeneratedCount>>
    /\ FetchNextSegmentResumes(i, answer,
           Spread(generateStorySegment(cfg.apiKey, answer, pendingNarrative[i].turn),
                  [isImportantScene |-> important]),
           storage)

\* generateGIF's prompt, model and duration (the task passes 6).
FalClipPrompt(prompt) == [prompt EXCEPT !.style = "fal clip"]
FAL_CLIP_MODEL == "fal-ai/stable-video"
GIF_DURATION == 6

\* Lines 452-473: the clip arrived.  The settings loaded at decision time are
\* counted up and saved, the session's count is counted up, and the last
\* narrator segment takes the clip; the task ends.
ClipArrives(task, gifUrl, storage) ==
    LET n == LastNarratorIndex(segments)
    IN /\ falSettings' = [task.fal EXCEPT !.currentSessionCount = @ + 1]
       /\ gifGeneratedCount' = gifGeneratedCount + 1
       /\ segments' = IF n = 0 THEN segments
                      ELSE [segments EXCEPT ![n] =
                               [@ EXCEPT !.gifUrl = gifUrl, !.isLoadingGif = FALSE,
                                         !.isLoadingImage = FALSE]]
       /\ mediaTasks' = mediaTasks \ {task}
       /\ UNCHANGED <<gifError, mountRuns, cfg, choices, isLoading, isGeneratingRef,
                      storyHistory, userChoiceCount, showCompletionModal, turn,
                      pendingNarrative, awaitingMemory, attachedBy, failedTurns>>
       /\ AutoSaveEffect(storage)

\* The advisory message the catch block picks for an error.
GifFailures == {"timeout", "other"}
AdvisoryMessage(error) ==
    IF error = "timeout"
    THEN [advisory |-> "Animation generation timed out. Using static image instead."]
    ELSE [advisory |-> "Animation generation failed. Using static image instead."]

\* Lines 474-522: generateGIF rejected.  The message is set, the last
\* narrator segment's isLoadingGif is cleared, and the task goes on to the
\* static image: it has called generateSceneImageWithCharacters when the step
\* ends.
ClipFails(task, error, storage) ==
    LET n == LastNarratorIndex(segments)
    IN /\ gifError' = AdvisoryMessage(error)
       /\ segments' = IF n = 0 THEN segments
                      ELSE [segments EXCEPT ![n] = [@ EXCEPT !.isLoadingGif = FALSE]]
       /\ mediaTasks' = (mediaTasks \ {task}) \cup {[task EXCEPT !.pc = "gemini"]}
       /\ UNCHANGED <<falSettings, gifGeneratedCount, mountRuns, cfg, choices, isLoading,
                      isGeneratingRef, storyHistory, userChoiceCount,
                      showCompletionModal, turn, pendingNarrative, awaitingMemory,
                      attachedBy, failedTurns>>
       /\ AutoSaveEffect(storage)

\* generateGIF: getCachedMediaBlob answers.  A hit is returned as the clip; on
\* a miss the provider has been called when the step ends.
GifCacheAnswers(task, dbOk, storage) ==
    /\ task \in mediaTasks
    /\ task.pc = "gifCache"
    /\ UNCHANGED mediaCache
    /\ LET cachedBlob == getCachedMediaBlob(mediaCache, FalClipPrompt(task.prompt),
                                            FAL_CLIP_MODEL, GIF_DURATION, "gif", dbOk)
       IN /\ lastEvent' = [op |-> "gifCacheAnswers", turn |-> task.turn,
                           hit |-> cachedBlob # Null, dbOk |-> dbOk,
                           target |-> LastNarratorIndex(segments)]
          /\ IF cachedBlob # Null
             THEN ClipArrives(task, cachedBlob, storage)
             ELSE /\ storage = QuietStorage
                  /\ MoveTask(task, "gifProvider")
                  /\ UNCHANGED clVars

\* generateGIF: the provider calls (with their retries and the 45 s timer)
\* and the fetch of the video settle.  On success the blob is cached, then
\* returned.
GifReturns(task, outcome, dbOk, storage) ==
    /\ task \in mediaTasks
    /\ task.pc = "gifProvider"
    /\ outcome # "ok" => dbOk
    /\ lastEvent' = [op |-> "gifReturns", turn |-> task.turn, outcome |-> outcome,
                     dbOk |-> dbOk, target |-> LastNarratorIndex(segments),
                     fal |-> falSettings, generated |-> gifGeneratedCount]
    /\ LET videoBlob == [src |-> "fal clip", prompt |-> task.prompt.scene]
       IN IF outcome = "ok"
          THEN /\ mediaCache' = cacheMediaBlob(mediaCache, FalClipPrompt(task.prompt),
                                               videoBlob, FAL_CLIP_MODEL, GIF_DURATION,
                                               "gif", dbOk)
               /\ ClipArrives(task, videoBlob, storage)
          ELSE /\ UNCHANGED mediaCache
               /\ ClipFails(task, outcome, storage)

NextClip ==
    \/ \E fal \in FalSettingsInputs : FalSettingsStored(fal) /\ UNCHANGED rtVars
    \/ \E c \in ClipConfigs : MountEffect(c) /\ UNCHANGED <<rtVars, clVars>>
    \/ \E choice \in AllChoices, storage \in SessionStorageAnswers :
           HandleChoice(choice, storage) /\ UNCHANGED <<rtVars, clVars>>
    \/ \E i \in 1 .. Len(pendingNarrative), answer \in ClipAnswers,
          important \in BOOLEAN, storage \in SessionStorageAnswers :
           ImportantSceneReturns(i, answer, important, storage) /\ UNCHANGED rtVars
    \/ \E task \in mediaTasks, dbOk \in BOOLEAN, storage \in SessionStorageAnswers :
           GifCacheAnswers(task, dbOk, storage) /\ UNCHANGED rtVars
    \/ \E task \in mediaTasks, outcome \in {"ok"} \cup GifFailures, dbOk \in BOOLEAN,
          storage \in SessionStorageAnswers :
           GifReturns(task, outcome, dbOk, storage) /\ UNCHANGED rtVars
    \/ \E task \in mediaTasks, ok \in BOOLEAN, storage \in SessionStorageAnswers :
           GeminiImageReturns(task, ok, storage) /\ UNCHANGED <<rtVars, clVars>>


(***************************************************************************)
(*                              NARRATION                                  *)
(***************************************************************************)

\* Bounds of the narration model.
MaxNarrations == 2    \* narrations started in a session (clicks and auto-plays)

\* Program constant: the speed the hosted handlers pass to the audio cache.
HOSTED_SPEED == 1

\* useState<number | null>(null) and useState<HTMLAudioElement | null>(null)
NoIndex == -1
NoAudio == 0

\* ---- settings ----
NarrationSettings(enabled, autoPlay, provider) ==
    [enabled |-> enabled, autoPlay |-> autoPlay, provider |-> provider]
\* What loadSettings().narration can answer once the player has enabled
\* narration in Settings (with the default settings no narration button is
\* rendered and no auto-play is scheduled).
StoredNarrationSettings ==
    { NarrationSettings(TRUE, FALSE, "webspeech"),
      NarrationSettings(TRUE, TRUE, "elevenlabs"),
      NarrationSettings(TRUE, FALSE, "speechify") }
NotRendered == NarrationSettings(FALSE, FALSE, "not rendered")
Unmounted == NarrationSettings(FALSE, FALSE, "unmounted")
HostedProviders == {"elevenlabs", "speechify"}

\* speechifyService.isConfigured(): the service falls back on a key written
\* in its source, so a client always exists.
SpeechifyConfigured == TRUE

\* elevenLabsSettings.selectedVoiceId / speechifySettings.selectedVoiceId
VoiceId(provider) == [voice |-> "selected", of |-> provider]

\* The k-th narrator segment of a session without lessons sits at index
\* 2 * (k - 1): narrator and user segments alternate.
NarratorIndex(k) == 2 * (k - 1)
\* The narrator segments on screen: the first and the second.
Narrators == {1, 2}

\* ---- the audio cache (utils/audioCache.ts) ----
AudioBlob(provider, voice, text) == [provider |-> provider, voice |-> voice, text |-> text]
NoBlob == [provider |-> "null", voice |-> VoiceId("null"), text |-> Narrative(0, <<>>)]
\* text.trim().toLowerCase()
NormalizeText(text) ==
    [ label |-> text.label, n |-> text.n, markers |-> text.markers,
      form |-> "trimmed, lower case" ]
generateAudioCacheKey(text, voiceURI, speed, provider) ==
    [ provider |-> provider, voiceURI |-> voiceURI, speed |-> speed,
      text |-> NormalizeText(text) ]
\* getCachedAudioBlob: the blob stored under the key, or null; an entry older
\* than the maximum age is deleted and answers null; a failure of IndexedDB
\* is swallowed and answers null.  db is "ok", "expired" or "error".
getCachedAudioBlob(cache, text, voiceURI, speed, provider, db) ==
    LET key == generateAudioCacheKey(text, voiceURI, speed, provider)
    IN IF db = "error" \/ key \notin DOMAIN cache
       THEN [blob |-> NoBlob, cache |-> cache]
       ELSE IF db = "expired"
       THEN [blob |-> NoBlob, cache |-> Drop(cache, key)]
       ELSE [blob |-> cache[key].audioBlob, cache |-> cache]
\* cacheAudioBlob: the entry put under the key; a failure is swallowed.
cacheAudioBlob_Verbatim(cache, text, audioBlob, voiceURI, speed, provider, dbOk) ==
    IF ~dbOk THEN cache
    ELSE Put(cache, [ provider |-> provider, voiceURI |-> voiceURI, speed |-> speed,
                      text |-> text ],
             [ text |-> text, audioBlob |-> audioBlob, voiceURI |-> voiceURI,
               speed |-> speed, provider |-> provider ])
cacheAudioBlob(cache, text, audioBlob, voiceURI, speed, provider, dbOk) ==
    IF ~dbOk THEN cache
    ELSE Put(cache, generateAudioCacheKey(text, voiceURI, speed, provider),
             [ text |-> text, audioBlob |-> audioBlob, voiceURI |-> voiceURI,
               speed |-> speed, provider |-> provider ])

\* ---- the hosted services ----
\* How a synthesis call can end at the provider.
SynthesisOutcomes == {"ok", "quota_exceeded", "429"}
\* synthesizeSpeech: the audio, or the error the service throws.  Only the
\* first hosted service turns a quota answer into a QuotaExceededError.
synthesizeSpeech_Generic(provider, text, voiceId, outcome) ==
    IF outcome = "ok"
    THEN [error |-> "none", blob |-> AudioBlob(provider, voiceId, text)]
    ELSE [error |-> "Error", blob |-> NoBlob]
synthesizeSpeech(provider, text, voiceId, outcome) ==
    IF outcome = "ok"
    THEN [error |-> "none", blob |-> AudioBlob(provider, voiceId, text)]
    ELSE IF provider = "elevenlabs" /\ outcome = "quota_exceeded"
    THEN [error |-> "QuotaExceededError", blob |-> NoBlob]
    ELSE [error |-> "Error", blob |-> NoBlob]

\* ---- the built-in synthesis (speechService over window.speechSynthesis) ----
\* synth: the utterance in the queue (the narration it speaks, 0 for none),
\* the paused flag of the synthesizer, and the end/error events of cancelled
\* utterances the browser has still to deliver.
SilentSynth == [utterance |-> 0, paused |-> FALSE, cancelled |-> 0]
\* stop(): synth.cancel() empties the queue and leaves the paused flag alone.
speechService_stop(s) ==
    [ utterance |-> 0, paused |-> s.paused,
      cancelled |-> IF s.utterance # 0 THEN s.cancelled + 1 ELSE s.cancelled ]
\* speak(): stop(), then a new utterance is queued.
speechService_speak(s, narration) ==
    [speechService_stop(s) EXCEPT !.utterance = narration]
\* pause(): `if (synth.speaking && !synth.paused) synth.pause()`
speechService_pause(s) ==
    IF s.utterance # 0 /\ ~s.paused THEN [s EXCEPT !.paused = TRUE] ELSE s
\* resume(): `if (synth.paused) synth.resume()`
speechService_resume(s) ==
    IF s.paused THEN [s EXCEPT !.paused = FALSE] ELSE s

\* ---- audio elements ----
\* audio.pause() / audio.play() on the element a
PauseAudio(elements, a) ==
    IF elements[a].state = "playing"
    THEN [elements EXCEPT ![a].state = "paused"] ELSE elements
ResumeAudio(elements, a) ==
    IF elements[a].state = "paused"
    THEN [elements EXCEPT ![a].state = "playing"] ELSE elements

\* ---- initial state: before the first render ----
NarrInit ==
    /\ narrationSettings = NotRendered
    /\ firstRenderNarration = NotRendered
    /\ currentlyPlayingIndex = NoIndex
    /\ isPaused = FALSE
    /\ isGeneratingAudio = FALSE
    /\ currentAudioElement = NoAudio
    /\ audioElements = <<>>
    /\ synth = SilentSynth
    /\ narrationTasks = {}
    /\ audioCache = EmptyObject
    /\ narrations = <<>>

Mounted == narrationSettings \notin {NotRendered, Unmounted}

\* The four setters of the narration state; on an unmounted component a
\* setter does nothing.
SetNarrationState(index, paused, generating, audio) ==
    /\ currentlyPlayingIndex' = IF Mounted THEN index ELSE currentlyPlayingIndex
    /\ isPaused' = IF Mounted THEN paused ELSE isPaused
    /\ isGeneratingAudio' = IF Mounted THEN generating ELSE isGeneratingAudio
    /\ currentAudioElement' = IF Mounted THEN audio ELSE currentAudioElement

\* The first render: useState(loadSettings().narration)
FirstRenderNarration(settings) ==
    /\ narrationSettings = NotRendered
    /\ narrationSettings' = settings
    /\ firstRenderNarration' = settings
    /\ UNCHANGED <<currentlyPlayingIndex, isPaused, isGeneratingAudio,
                   currentAudioElement, audioElements, synth, narrationTasks,
                   audioCache, narrations>>

\* handleVisibilityChange: the player returns from Settings and the settings
\* are loaded again.
VisibilityChange(settings) ==
    /\ Mounted
    /\ narrationSettings' = settings
    /\ UNCHANGED <<firstRenderNarration, currentlyPlayingIndex, isPaused,
                   isGeneratingAudio, currentAudioElement, audioElements, synth,
                   narrationTasks, audioCache, narrations>>

\* ---- handlePlayNarration ----
NarrationTask(narration, provider, pc, blob) ==
    [narration |-> narration, provider |-> provider, pc |-> pc, blob |-> blob]

\* handleElevenLabsNarration / handleSpeechifyNarration up to the first
\* await: not configured, the playing index is cleared; otherwise the
\* generating flag is set and the cache is asked.  configured is the answer
\* of elevenLabsService.isConfigured(), which depends on the key the player
\* may set or clear in Settings at any time.
HostedNarrationStarts(provider, configured, narration, index, paused, audio) ==
    IF (provider = "elevenlabs" /\ ~configured)
       \/ (provider = "speechify" /\ ~SpeechifyConfigured)
    THEN /\ SetNarrationState(NoIndex, paused, isGeneratingAudio, audio)
         /\ UNCHANGED narrationTasks
    ELSE /\ SetNarrationState(index, paused, TRUE, audio)
         /\ narrationTasks' = narrationTasks \cup
                { NarrationTask(narration, provider, "cacheLookup", NoBlob) }

\* `if (currentAudioElement) { currentAudioElement.pause(); setCurrentAudioElement(null) }`
\* on the audio element the calling closure holds.
StopCurrentAudio(elements, audio) ==
    IF audio # NoAudio THEN PauseAudio(elements, audio) ELSE elements

\* The branch that starts a narration (lines 698-725), run with the values of
\* the render whose closure is called: the audio element it holds and its
\* narration settings.
StartNarration(text, index, closureAudio, settings, configured, auto) ==
    LET narration == Len(narrations) + 1
        stopped == speechService_stop(synth)
        audio == IF closureAudio # NoAudio THEN NoAudio ELSE currentAudioElement
    IN /\ narrations' = Append(narrations,
              [index |-> index, text |-> text, auto |-> auto, calls |-> <<>>])
       /\ audioElements' = StopCurrentAudio(audioElements, closureAudio)
       /\ IF settings.provider \in HostedProviders
          THEN /\ synth' = stopped
               /\ HostedNarrationStarts(settings.provider, configured, narration,
                                        index, FALSE, audio)
          ELSE /\ synth' = speechService_speak(stopped, narration)
               /\ SetNarrationState(index, FALSE, isGeneratingAudio, audio)
               /\ UNCHANGED narrationTasks
       /\ UNCHANGED <<narrationSettings, firstRenderNarration,
                      audioCache>>

\* The branch for the segment that is playing (lines 674-696): pause or
\* resume, on the audio element for a hosted provider that has one, on the
\* built-in synthesis otherwise.
ToggleNarration ==
    LET hosted == /\ narrationSettings.provider \in HostedProviders
                  /\ currentAudioElement # NoAudio
    IN /\ IF isPaused
          THEN IF hosted
               THEN /\ audioElements' = ResumeAudio(audioElements, currentAudioElement)
                    /\ UNCHANGED synth
               ELSE /\ synth' = speechService_resume(synth)
                    /\ UNCHANGED audioElements
          ELSE IF hosted
               THEN /\ audioElements' = PauseAudio(audioElements, currentAudioElement)
                    /\ UNCHANGED synth
               ELSE /\ synth' = speechService_pause(synth)
                    /\ UNCHANGED audioElements
       /\ SetNarrationState(currentlyPlayingIndex, ~isPaused, isGeneratingAudio,
                            currentAudioElement)
       /\ UNCHANGED <<narrationSettings, firstRenderNarration,
                      narrationTasks, audioCache, narrations>>

\* A click on the narration button of the k-th narrator segment; the button
\* is rendered when narration is enabled and disabled while that segment's
\* audio is being generated.
HandlePlayNarration(k, configured) ==
    LET index == NarratorIndex(k)
    IN /\ Mounted
       /\ narrationSettings.enabled
       /\ ~(isGeneratingAudio /\ currentlyPlayingIndex = index)
       /\ IF currentlyPlayingIndex = index
          THEN ToggleNarration
          ELSE /\ Len(narrations) < MaxNarrations
               /\ StartNarration(Narrative(k, <<>>), index, currentAudioElement,
                                 narrationSettings, configured, FALSE)

\* The auto-play timer of a successful turn: fetchNextSegment calls the
\* handlePlayNarration of the first render, with that render's settings,
\* playing index (null) and audio element (null), and passes the index
\* `segments.length` of that render.
AutoPlayNarration(k, configured) ==
    /\ Mounted
    /\ firstRenderNarration.enabled /\ firstRenderNarration.autoPlay
    /\ Len(narrations) < MaxNarrations
    /\ \A n \in 1 .. Len(narrations) :
           ~(narrations[n].auto /\ narrations[n].text = Narrative(k, <<>>))
    /\ StartNarration(Narrative(k, <<>>), Len(FirstRender.segments), NoAudio,
                      firstRenderNarration, configured, TRUE)

\* ---- the hosted handlers after their awaits ----
ReplaceTask(task, new) == (narrationTasks \ {task}) \cup {new}

\* History: the call of a narration's handler that has just answered.
Logged(task, entry) ==
    [narrations EXCEPT ![task.narration].calls = Append(@, entry)]

\* `new Audio(url); setCurrentAudioElement(audio); audio.play()`, then the
\* finally block.
PlayAudio(task, blob) ==
    /\ audioElements' = Append(audioElements,
           [narration |-> task.narration, blob |-> blob, state |-> "playing"])
    /\ SetNarrationState(currentlyPlayingIndex, isPaused, FALSE,
                         Len(audioElements) + 1)
    /\ narrationTasks' = narrationTasks \ {task}

\* `await getCachedAudioBlob(...)` answers.
AudioCacheAnswers(task, db) ==
    /\ task \in narrationTasks
    /\ task.pc = "cacheLookup"
    /\ LET r == getCachedAudioBlob(audioCache, narrations[task.narration].text,
                    VoiceId(task.provider), HOSTED_SPEED, task.provider, db)
       IN /\ audioCache' = r.cache
          /\ IF r.blob # NoBlob
             THEN PlayAudio(task, r.blob)
             ELSE /\ narrationTasks' =
                         ReplaceTask(task, [task EXCEPT !.pc = "synthesize"])
                  /\ UNCHANGED <<audioElements, currentlyPlayingIndex, isPaused,
                                 isGeneratingAudio, currentAudioElement>>
          /\ narrations' = Logged(task,
                 [ call |-> "lookup", provider |-> task.provider,
                   key |-> generateAudioCacheKey(narrations[task.narration].text,
                               VoiceId(task.provider), HOSTED_SPEED, task.provider),
                   hit |-> r.blob # NoBlob,
                   readable |-> db = "ok" /\ generateAudioCacheKey(narrations[task.narration].text,
                                   VoiceId(task.provider), HOSTED_SPEED, task.provider)
                               \in DOMAIN audioCache ])
    /\ UNCHANGED <<narrationSettings, firstRenderNarration, synth>>

\* `await synthesizeSpeech(...)` answers or throws: the catch block falls
\* back to the second hosted service on a QuotaExceededError of the first and
\* clears the playing index otherwise.
SynthesisReturns(task, outcome) ==
    /\ task \in narrationTasks
    /\ task.pc = "synthesize"
    /\ LET r == synthesizeSpeech(task.provider, narrations[task.narration].text,
                                 VoiceId(task.provider), outcome)
       IN IF r.error = "none"
          THEN /\ narrationTasks' = ReplaceTask(task,
                      [task EXCEPT !.pc = "cachePut", !.blob = r.blob])
               /\ UNCHANGED <<currentlyPlayingIndex, isPaused, isGeneratingAudio,
                              currentAudioElement>>
          ELSE IF task.provider = "elevenlabs" /\ r.error = "QuotaExceededError"
                  /\ SpeechifyConfigured
          THEN /\ narrationTasks' = ReplaceTask(task,
                      NarrationTask(task.narration, "speechify", "cacheLookup", NoBlob))
               /\ SetNarrationState(currentlyPlayingIndex, isPaused, TRUE,
                                    currentAudioElement)
          ELSE /\ narrationTasks' = narrationTasks \ {task}
               /\ SetNarrationState(NoIndex, isPaused, FALSE, currentAudioElement)
    /\ narrations' = Logged(task,
           [ call |-> "synthesize", provider |-> task.provider, outcome |-> outcome,
             index |-> currentlyPlayingIndex', generating |-> isGeneratingAudio',
             next |-> {t \in narrationTasks' : t.narration = task.narration} ])
    /\ UNCHANGED <<narrationSettings, firstRenderNarration,
                   audioElements, synth, audioCache>>

\* `await cacheAudioBlob(...)` returns; the audio is played.
CachePutReturns(task, dbOk) ==
    /\ task \in narrationTasks
    /\ task.pc = "cachePut"
    /\ audioCache' = cacheAudioBlob(audioCache, narrations[task.narration].text,
           task.blob, VoiceId(task.provider), HOSTED_SPEED, task.provider, dbOk)
    /\ PlayAudio(task, task.blob)
    /\ narrations' = Logged(task,
           [ call |-> "put", provider |-> task.provider, blob |-> task.blob,
             stored |-> dbOk ])
    /\ UNCHANGED <<narrationSettings, firstRenderNarration, synth>>

\* audio.onended / audio.onerror of the element a
AudioEvent(a) ==
    /\ a \in 1 .. Len(audioElements)
    /\ audioElements[a].state = "playing"
    /\ audioElements' = [audioElements EXCEPT ![a].state = "ended"]
    /\ SetNarrationState(NoIndex, FALSE, isGeneratingAudio, NoAudio)
    /\ UNCHANGED <<narrationSettings, firstRenderNarration,
                   synth, narrationTasks, audioCache, narrations>>

\* utterance.onend / utterance.onerror: the utterance being spoken ends
\* (cancelled FALSE), or the browser delivers the event of an utterance that
\* stop() cancelled (cancelled TRUE); both run the callback speak() was given.
UtteranceEvent(cancelled) ==
    /\ IF cancelled
       THEN /\ synth.cancelled > 0
            /\ synth' = [synth EXCEPT !.cancelled = @ - 1]
       ELSE /\ synth.utterance # 0 /\ ~synth.paused
            /\ synth' = [synth EXCEPT !.utterance = 0]
    /\ SetNarrationState(NoIndex, FALSE, isGeneratingAudio, currentAudioElement)
    /\ UNCHANGED <<narrationSettings, firstRenderNarration,
                   audioElements, narrationTasks, audioCache, narrations>>

\* stopAllNarration, called by the exit button and by the completion modal
\* right before onExit() unmounts the player.
StopAllNarration ==
    /\ Mounted
    /\ synth' = speechService_stop(synth)
    /\ audioElements' = StopCurrentAudio(audioElements, currentAudioElement)
    /\ SetNarrationState(NoIndex, FALSE, isGeneratingAudio, NoAudio)
    /\ narrationSettings' = Unmounted
    /\ UNCHANGED <<firstRenderNarration, narrationTasks,
                   audioCache, narrations>>

NextNarr ==
    \/ \E settings \in StoredNarrationSettings : FirstRenderNarration(settings)
    \/ \E settings \in StoredNarrationSettings : VisibilityChange(settings)
    \/ \E k \in Narrators, configured \in BOOLEAN :
           HandlePlayNarration(k, configured)
    \/ \E k \in Narrators, configured \in BOOLEAN :
           AutoPlayNarration(k, configured)
    \/ \E task \in narrationTasks, db \in {"ok", "expired", "error"} :
           AudioCacheAnswers(task, db)
    \/ \E task \in narrationTasks, outcome \in SynthesisOutcomes :
           SynthesisReturns(task, outcome)
    \/ \E task \in narrationTasks, dbOk \in BOOLEAN : CachePutReturns(task, dbOk)
    \/ \E a \in 1 .. Len(audioElements) : AudioEvent(a)
    \/ \E cancelled \in BOOLEAN : UtteranceEvent(cancelled)
    \/ StopAllNarration

\* The hosted providers alone: the player has chosen one of them in
\* Settings and set its key, the tab stays visible, and narrations are
\* started by clicks.  IndexedDB answers or fails; the age of its entries is
\* followed in the cache stores below.
HostedNarrationSettings ==
    {settings \in StoredNarrationSettings : settings.provider \in HostedProviders}

NextHosted ==
    \/ \E settings \in HostedNarrationSettings : FirstRenderNarration(settings)
    \/ \E k \in Narrators : HandlePlayNarration(k, TRUE)
    \/ \E task \in narrationTasks, db \in {"ok", "error"} :
           AudioCacheAnswers(task, db)
    \/ \E task \in narrationTasks, outcome \in SynthesisOutcomes :
           SynthesisReturns(task, outcome)
    \/ \E task \in narrationTasks, dbOk \in BOOLEAN : CachePutReturns(task, dbOk)
    \/ \E a \in 1 .. Len(audioElements) : AudioEvent(a)

(***************************************************************************)
(*          THE CACHE STORES (utils/mediaCache.ts, audioCache.ts)          *)
(*                                                                         *)
(* The two IndexedDB stores outlive a session, so a session starts on what *)
(* earlier sessions left.  Times are Date.now() counted in seconds; puts   *)
(* are separated by a provider call and never read the same clock value.   *)
(***************************************************************************)

MEDIA_MAX_CACHE_AGE == 2592000      \* 30 days
AUDIO_MAX_CACHE_AGE == 604800       \* 7 days
MEDIA_MAX_CACHE_ENTRIES == 50
AUDIO_MAX_CACHE_ENTRIES == 100

MaxCacheOps == 3    \* cache calls and clock readings followed in a session

CacheKinds == {"media", "audio"}
MAX_CACHE_AGE(kind) ==
    IF kind = "media" THEN MEDIA_MAX_CACHE_AGE ELSE AUDIO_MAX_CACHE_AGE
MAX_CACHE_ENTRIES(kind) ==
    IF kind = "media" THEN MEDIA_MAX_CACHE_ENTRIES ELSE AUDIO_MAX_CACHE_ENTRIES

\* How a text can be written: trim() and toLowerCase() undo the second form.
TextForms == {"as written", "padded, upper case"}

\* The arguments of a cache call: (prompt, model, duration, mediaType) for the
\* media cache, (text, voiceURI, speed, provider) for the audio cache.
CacheRequest(kind, id, form) ==
    IF kind = "media"
    THEN [ prompt |-> [ScenePrompt(id) EXCEPT !.form = form],
           model |-> FAL_IMAGE_MODEL, duration |-> 0, mediaType |-> "image" ]
    ELSE [ text |-> [ label |-> "narrative", n |-> id, markers |-> <<>>,
                      form |-> form ],
           voiceURI |-> VoiceId("elevenlabs"), speed |-> HOSTED_SPEED,
           provider |-> "elevenlabs" ]
CacheRequests(kind) == { CacheRequest(kind, 1, form) : form \in TextForms }

\* generateCacheKey of the kind's module, of a request or of a stored entry.
KeyOf_Verbatim(kind, r) ==
    IF kind = "media"
    THEN [ mediaType |-> r.mediaType, model |-> r.model,
           duration |-> r.duration, prompt |-> r.prompt ]
    ELSE [ provider |-> r.provider, voiceURI |-> r.voiceURI, speed |-> r.speed,
           text |-> r.text ]
KeyOf(kind, r) ==
    IF kind = "media"
    THEN generateCacheKey(r.prompt, r.model, r.duration, r.mediaType)
    ELSE generateAudioCacheKey(r.text, r.voiceURI, r.speed, r.provider)
\* The entry a put writes.
EntryOf(kind, r, blob, now) ==
    IF kind = "media"
    THEN [ prompt |-> r.prompt, mediaBlob |-> blob, model |-> r.model,
           duration |-> r.duration, timestamp |-> now,
           mediaType |-> r.mediaType ]
    ELSE [ text |-> r.text, audioBlob |-> blob, voiceURI |-> r.voiceURI,
           speed |-> r.speed, timestamp |-> now, provider |-> r.provider ]
BlobOf(kind, entry) ==
    IF kind = "media" THEN entry.mediaBlob ELSE entry.audioBlob

\* catch (error) { console.error(...) }: whether the error goes on to the
\* caller.
CacheCatch_Rethrows(raised) == raised
CacheCatch(raised) == FALSE

\* The first entry of getAllFromIndex('by-timestamp').
OldestKey(store) ==
    CHOOSE key \in DOMAIN store :
        \A other \in DOMAIN store :
            store[key].timestamp <= store[other].timestamp
\* for (i < entriesToRemove) delete remainingEntries[i], by the regenerated key
RECURSIVE RemoveOldest_Newest(_, _, _)
RECURSIVE RemoveOldest(_, _, _)
RemoveOldest_Newest(kind, store, n) ==
    IF n = 0 THEN store
    ELSE LET newest == CHOOSE key \in DOMAIN store :
                           \A other \in DOMAIN store :
                               store[key].timestamp >= store[other].timestamp
         IN RemoveOldest_Newest(kind, Drop(store, KeyOf(kind, store[newest])), n - 1)
RemoveOldest(kind, store, n) ==
    IF n = 0 THEN store
    ELSE RemoveOldest(kind, Drop(store, KeyOf(kind, store[OldestKey(store)])),
                      n - 1)

\* Drop that tolerates an absent key, as db.delete does.
Delete(store, keys) == [k \in DOMAIN store \ keys |-> store[k]]

\* cleanupCache: the entries older than the maximum age are deleted, each by
\* the key regenerated from its fields; then, if more than the maximum count
\* remain, the first ones by timestamp are deleted.  A failure of the store
\* (fault "cleanup": getAllFromIndex throws) is caught inside.
cleanupCache_KeepsExpired(kind, store, now, fault) ==
    IF fault = "cleanup" THEN store
    ELSE LET over == Cardinality(DOMAIN store) - MAX_CACHE_ENTRIES(kind)
         IN IF over > 0 THEN RemoveOldest(kind, store, over) ELSE store
cleanupCache(kind, store, now, fault) ==
    IF fault = "cleanup" THEN store
    ELSE LET expired == { KeyOf(kind, store[k]) :
                            k \in { e \in DOMAIN store :
                                      now - store[e].timestamp > MAX_CACHE_AGE(kind) } }
             remainingEntries == Delete(store, expired)
             over == Cardinality(DOMAIN remainingEntries) - MAX_CACHE_ENTRIES(kind)
         IN IF over > 0 THEN RemoveOldest(kind, remainingEntries, over)
            ELSE remainingEntries

\* cacheMediaBlob / cacheAudioBlob on the store: db.put under the key, then
\* cleanupCache; a failure of getDB or db.put (fault "put") is caught.
storeBlob(kind, store, r, blob, now, fault) ==
    IF fault = "put"
    THEN [ store |-> store, thrown |-> CacheCatch(TRUE) ]
    ELSE [ store |-> cleanupCache(kind,
                                  Put(store, KeyOf(kind, r), EntryOf(kind, r, blob, now)),
                                  now, fault),
           thrown |-> CacheCatch(FALSE) ]

\* getCachedMediaBlob / getCachedAudioBlob on the store: null without an
\* entry; an entry older than the maximum age is deleted and answers null; a
\* failure of getDB or db.get (fault "get") or of that delete (fault
\* "delete") is caught and answers null.
retrieveBlob(kind, store, r, now, fault) ==
    LET key == KeyOf(kind, r)
    IN IF fault = "get"
       THEN [ blob |-> Null, store |-> store, thrown |-> CacheCatch(TRUE) ]
       ELSE IF key \notin DOMAIN store
       THEN [ blob |-> Null, store |-> store, thrown |-> CacheCatch(FALSE) ]
       ELSE IF now - store[key].timestamp > MAX_CACHE_AGE(kind)
       THEN IF fault = "delete"
            THEN [ blob |-> Null, store |-> store, thrown |-> CacheCatch(TRUE) ]
            ELSE [ blob |-> Null, store |-> Drop(store, key),
                   thrown |-> CacheCatch(FALSE) ]
       ELSE [ blob |-> BlobOf(kind, store[key]), store |-> store,
              thrown |-> CacheCatch(FALSE) ]

\* What earlier sessions left: n entries of other texts, put a second apart.
EarlierRequest(kind, i) == CacheRequest(kind, 0 - i, "as written")
EarlierEntries(kind, n) ==
    LET i(key) == IF kind = "media" THEN 0 - key.prompt.scene ELSE 0 - key.text.n
    IN [ key \in { KeyOf(kind, EarlierRequest(kind, e)) : e \in 1 .. n } |->
           EntryOf(kind, EarlierRequest(kind, i(key)), [payload |-> 0 - i(key)],
                   i(key)) ]
\* The sizes followed: an empty store, a full one, one below and one above the
\* maximum count (the latter is left by a put whose eviction failed).
StoreSizes(kind) ==
    { 0, MAX_CACHE_ENTRIES(kind) - 1, MAX_CACHE_ENTRIES(kind),
      MAX_CACHE_ENTRIES(kind) + 1 }
\* The time that passes between two cache calls.
ClockSteps(kind) == { 1, MAX_CACHE_AGE(kind), MAX_CACHE_AGE(kind) + 1 }

NoCall == [ op |-> "none", request |-> Null, blob |-> Null, fault |-> "none",
            thrown |-> FALSE, at |-> 0, before |-> EmptyObject ]

CacheInit ==
    /\ cacheKind = "none"
    /\ cacheStore = EmptyObject
    /\ cacheClock = 0
    /\ cacheOps = 0
    /\ cacheLast = NoCall
    /\ cachePut = NoCall

\* The page opens on the store of earlier sessions.
PreviousSessions(kind, n) ==
    /\ cacheKind = "none"
    /\ cacheKind' = kind
    /\ cacheStore' = EarlierEntries(kind, n)
    /\ cacheClock' = n + 1
    /\ UNCHANGED <<cacheOps, cacheLast, cachePut>>

ClockAdvances(d) ==
    /\ cacheKind # "none"
    /\ cacheOps < MaxCacheOps
    /\ cacheClock' = cacheClock + d
    /\ cacheOps' = cacheOps + 1
    /\ UNCHANGED <<cacheKind, cacheStore, cacheLast, cachePut>>

\* A call of cacheMediaBlob / cacheAudioBlob.
PutBlob(r, fault) ==
    /\ cacheKind # "none"
    /\ cacheOps < MaxCacheOps
    /\ \A k \in DOMAIN cacheStore : cacheStore[k].timestamp < cacheClock
    /\ LET blob == [payload |-> cacheOps + 1]
           done == storeBlob(cacheKind, cacheStore, r, blob, cacheClock, fault)
           call == [ op |-> "put", request |-> r, blob |-> blob,
                     fault |-> fault, thrown |-> done.thrown,
                     at |-> cacheClock, before |-> cacheStore ]
       IN /\ cacheStore' = done.store
          /\ cacheLast' = call
          /\ cachePut' = call
    /\ cacheOps' = cacheOps + 1
    /\ UNCHANGED <<cacheKind, cacheClock>>

\* A call of getCachedMediaBlob / getCachedAudioBlob.
GetBlob(r, fault) ==
    /\ cacheKind # "none"
    /\ cacheOps < MaxCacheOps
    /\ LET done == retrieveBlob(cacheKind, cacheStore, r, cacheClock, fault)
       IN /\ cacheStore' = done.store
          /\ cacheLast' = [ op |-> "get", request |-> r, blob |-> done.blob,
                            fault |-> fault, thrown |-> done.thrown,
                            at |-> cacheClock, before |-> cacheStore ]
    /\ cacheOps' = cacheOps + 1
    /\ UNCHANGED <<cacheKind, cacheClock, cachePut>>

PutFaults == {"none", "put", "cleanup"}
GetFaults == {"none", "get", "delete"}

NextCache ==
    \/ \E kind \in CacheKinds : \E n \in StoreSizes(kind) : PreviousSessions(kind, n)
    \/ \E d \in ClockSteps(cacheKind) : ClockAdvances(d)
    \/ \E r \in CacheRequests(cacheKind) : \E fault \in PutFaults : PutBlob(r, fault)
    \/ \E r \in CacheRequests(cacheKind) : \E fault \in GetFaults : GetBlob(r, fault)

(***************************************************************************)
(*                 SETTINGS (services/storageService.ts)                   *)
(***************************************************************************)

\* speechService.getDefaultVoice(): an English voice, the first voice, or null
\* while the browser has not loaded its voices.
DefaultVoices == { Null, [voiceURI |-> "en-voice", name |-> "English voice"] }

\* getDefaultNarrationSettings (services/speechService.ts)
getDefaultNarrationSettings(voice) ==
    [ enabled   |-> FALSE,
      voiceURI  |-> IF voice = Null THEN "" ELSE voice.voiceURI,
      voiceName |-> IF voice = Null THEN "Default" ELSE voice.name,
      speed     |-> "1.0",
      autoPlay  |-> FALSE,
      provider  |-> "webspeech" ]

getDefaultSettings(voice) ==
    [ narration  |-> getDefaultNarrationSettings(voice),
      elevenLabs |-> [ enabled |-> FALSE,
                       selectedVoiceId |-> "ELEVENLABS_VOICES[0].id",
                       autoPlay |-> FALSE ],
      speechify  |-> [ enabled |-> FALSE, selectedVoiceId |-> "jesse" ],
      fal        |-> [ enabled |-> FALSE,
                       sessionLimit |-> FAL_SESSION_LIMIT,
                       currentSessionCount |-> 0,
                       useFalFallback |-> TRUE ] ]

\* `...value` inside an object literal: null and undefined add no key.
SpreadOf(value) == IF value = Null THEN EmptyObject ELSE value
\* `settings.section`, undefined (here Null) when the key is absent.
SectionOf(settings, section) == GetOr(settings, section, Null)

\* The object literal with the sections left as the parsed object has them.
MergedSettings_Shallow(defaults, settings) == Spread(defaults, settings)

\* The object literal of loadSettings: the defaults, the parsed object over
\* them, and each of the four sections merged field by field.
MergedSettings(defaults, settings) ==
    Spread(Spread(defaults, settings),
           [ narration  |-> Spread(defaults.narration,
                                   SpreadOf(SectionOf(settings, "narration"))),
             elevenLabs |-> Spread(defaults.elevenLabs,
                                   SpreadOf(SectionOf(settings, "elevenLabs"))),
             speechify  |-> Spread(defaults.speechify,
                                   SpreadOf(SectionOf(settings, "speechify"))),
             fal        |-> Spread(defaults.fal,
                                   SpreadOf(SectionOf(settings, "fal"))) ])

\* The try block of loadSettings: what it returns, or the exception raised in
\* it (the SyntaxError of JSON.parse, the TypeError of reading `.narration`
\* of a parsed null).
loadSettingsTry(saved, voice) ==
    IF saved = NoItem
    THEN [thrown |-> FALSE, value |-> getDefaultSettings(voice)]
    ELSE IF ~JSONparses(saved)
    THEN [thrown |-> TRUE, error |-> "SyntaxError"]
    ELSE IF JSONparse(saved) = Null
    THEN [thrown |-> TRUE, error |-> "TypeError"]
    ELSE [thrown |-> FALSE,
          value |-> MergedSettings(getDefaultSettings(voice), JSONparse(saved))]

\* loadSettings: the try block, and the defaults from its catch block.
loadSettings(saved, voice) ==
    LET attempt == loadSettingsTry(saved, voice)
    IN IF attempt.thrown
       THEN [thrown |-> FALSE, value |-> getDefaultSettings(voice)]
       ELSE attempt

\* What a session can find under SETTINGS_KEY: nothing, text that is not
\* JSON, the JSON text `null`, or an object written by this or an earlier
\* version of the program, whose sections can be missing, null or lack the
\* fields added since.
UnparseableItem == [text |-> "not json"]
StoredSections ==
    [ narration  |-> { Null,
                       [enabled |-> TRUE],
                       [ enabled |-> TRUE, voiceURI |-> "fr-voice",
                         voiceName |-> "French voice", speed |-> "1.5",
                         autoPlay |-> TRUE, provider |-> "elevenlabs" ] },
      elevenLabs |-> { [enabled |-> TRUE],
                       [ enabled |-> TRUE, selectedVoiceId |-> "rachel",
                         autoPlay |-> TRUE, apiKey |-> "user key" ] },
      speechify  |-> { [selectedVoiceId |-> "henry"] },
      fal        |-> { Null,
                       [ enabled |-> TRUE, sessionLimit |-> FAL_SESSION_LIMIT - 1,
                         currentSessionCount |-> 1 ] } ]
SettingsSections == DOMAIN StoredSections
StoredSettings ==
    UNION { [present -> UNION {StoredSections[s] : s \in present}] :
                present \in SUBSET SettingsSections }
StoredSettingsItems ==
    {NoItem, UnparseableItem, JSONstringify(Null)}
        \cup { JSONstringify(settings) :
                   settings \in { o \in StoredSettings :
                                      \A s \in DOMAIN o : o[s] \in StoredSections[s] } }

\* The sections the settings screen saves.
SavedSections ==
    [ narration  |-> [ enabled |-> TRUE, voiceURI |-> "en-voice",
                       voiceName |-> "English voice", speed |-> "1.25",
                       autoPlay |-> FALSE, provider |-> "speechify" ],
      elevenLabs |-> [ enabled |-> TRUE, selectedVoiceId |-> "adam",
                       autoPlay |-> FALSE ],
      speechify  |-> [ enabled |-> TRUE, selectedVoiceId |-> "jesse" ],
      fal        |-> [ enabled |-> TRUE, sessionLimit |-> FAL_SESSION_LIMIT,
                       currentSessionCount |-> 1, useFalFallback |-> FALSE ] ]

NoSettingsCall == [op |-> "none"]

SettingsInit ==
    /\ settingsItem \in StoredSettingsItems
    /\ defaultVoice \in DefaultVoices
    /\ settingsLast = NoSettingsCall

\* loadSettings(), called by a component.
LoadSettings ==
    /\ settingsLast' = [ op |-> "load", saved |-> settingsItem,
                         voice |-> defaultVoice,
                         result |-> loadSettings(settingsItem, defaultVoice) ]
    /\ UNCHANGED <<settingsItem, defaultVoice>>

\* saveNarrationSettings, saveElevenLabsSettings, saveSpeechifySettings and
\* saveFalSettings: loadSettings, replace the section, saveSettings (whose
\* catch swallows a rejected setItem).
SaveSection(section, stored) ==
    LET settings == loadSettings(settingsItem, defaultVoice).value
        written == Put(settings, section, SavedSections[section])
    IN /\ settingsItem' = IF stored THEN JSONstringify(written) ELSE settingsItem
       /\ settingsLast' = [ op |-> "save", section |-> section,
                            saved |-> settingsItem, stored |-> stored ]
       /\ UNCHANGED defaultVoice

\* speechSynthesis.onvoiceschanged: the browser has loaded its voices.
VoicesChanged ==
    /\ defaultVoice = Null
    /\ defaultVoice' \in DefaultVoices \ {Null}
    /\ UNCHANGED <<settingsItem, settingsLast>>

NextSettings ==
    \/ LoadSettings
    \/ \E section \in SettingsSections, stored \in BOOLEAN : SaveSection(section, stored)
    \/ VoicesChanged

(***************************************************************************)
(*                           SPECIFICATIONS                                *)
(***************************************************************************)

Init ==
    /\ RetryInit /\ StoreInit /\ TurnInit /\ NarrInit /\ CacheInit /\ ClipInit
    /\ settingsItem = NoItem /\ defaultVoice = Null /\ settingsLast = NoSettingsCall
    /\ AskInit

SpecRetry == Init /\ [][NextRetry /\ UNCHANGED <<stVars, tlVars, nrVars, chVars, clVars, seVars, aqVars>>]_vars

SpecStore == Init /\ [][NextStore /\ UNCHANGED <<nrVars, chVars, clVars, seVars, aqVars>>]_vars

Spec == Init /\ [][NextTurn /\ UNCHANGED <<nrVars, chVars, clVars, seVars, aqVars>>]_vars

SpecLive == Init /\ [][NextLive /\ UNCHANGED <<nrVars, chVars, clVars, seVars, aqVars>>]_vars /\ LiveFairness

SpecNarr == Init /\ [][NextNarr /\ UNCHANGED <<rtVars, stVars, tlVars, chVars, clVars, seVars, aqVars>>]_vars

SpecCache == Init /\ [][NextCache /\ UNCHANGED <<rtVars, stVars, tlVars, nrVars, clVars, seVars, aqVars>>]_vars

\* A browser that holds the progress of earlier sessions.
InitCleanup ==
    /\ RetryInit /\ StoredInit /\ TurnInit /\ NarrInit /\ CacheInit /\ ClipInit
    /\ settingsItem = NoItem /\ defaultVoice = Null /\ settingsLast = NoSettingsCall
    /\ AskInit

SpecCleanup == InitCleanup /\ [][NextCleanup /\ UNCHANGED <<nrVars, chVars, clVars, seVars, aqVars>>]_vars

SpecHosted == Init /\ [][NextHosted /\ UNCHANGED <<rtVars, stVars, tlVars, chVars, clVars, seVars, aqVars>>]_vars

SpecAsk == Init /\ [][NextAsk /\ UNCHANGED <<nrVars, chVars, clVars, seVars>>]_vars

SpecPressure == Init /\ [][NextPressure /\ UNCHANGED <<nrVars, chVars, clVars, seVars, aqVars>>]_vars

\* A browser that holds the settings of earlier sessions.
InitSettings ==
    /\ RetryInit /\ StoreInit /\ TurnInit /\ NarrInit /\ CacheInit /\ ClipInit
    /\ SettingsInit
    /\ AskInit

SpecSettings ==
    InitSettings /\ [][NextSettings /\ UNCHANGED <<rtVars, stVars, tlVars, nrVars, chVars, clVars, aqVars>>]_vars

SpecClip == Init /\ [][NextClip /\ UNCHANGED <<nrVars, chVars, seVars, aqVars>>]_vars

\* The clip sessions in which every call of a media task settles: IndexedDB
\* answers, and the clip and image providers return, fail or time out.
ClipFairness ==
    /\ WF_vars(\E task \in mediaTasks, dbOk \in BOOLEAN, storage \in SessionStorageAnswers :
                   GifCacheAnswers(task, dbOk, storage)
                   /\ UNCHANGED <<rtVars, nrVars, chVars, seVars, aqVars>>)
    /\ WF_vars(\E task \in mediaTasks, outcome \in {"ok"} \cup GifFailures, dbOk \in BOOLEAN,
                  storage \in SessionStorageAnswers :
                   GifReturns(task, outcome, dbOk, storage)
                   /\ UNCHANGED <<rtVars, nrVars, chVars, seVars, aqVars>>)
    /\ WF_vars(\E task \in mediaTasks, ok \in BOOLEAN, storage \in SessionStorageAnswers :
                   GeminiImageReturns(task, ok, storage)
                   /\ UNCHANGED <<rtVars, clVars, nrVars, chVars, seVars, aqVars>>)
SpecClipLive ==
    Init /\ [][NextClip /\ UNCHANGED <<nrVars, chVars, seVars, aqVars>>]_vars /\ ClipFairness

(***************************************************************************)
(*                    CLAIMS ABOUT THE PROGRESS STORE                      *)
(***************************************************************************)

\* The sessions saveStoryProgress set out to store in the step being taken:
\* what was stored before, with the saved story's entry replaced.
SaveIntended ==
    Put(loadAllProgress(ls_progress), st_last'.storyId,
        Spread([storyId |-> st_last'.storyId], st_last'.progress))

\* The loaded session has as many segments as the saved one, with the same
\* type and text at every position (a session without a `segments` property
\* counts as having none).
SameSegments(got, want) ==
    LET w == GetOr(want, "segments", <<>>)
        g == GetOr(got, "segments", <<>>)
    IN /\ got # Null
       /\ Len(g) = Len(w)
       /\ \A i \in 1 .. Len(w) :
              /\ g[i].type = w[i].type
              /\ g[i].text = w[i].text

\* C3: when the verbose write is rejected for capacity and the compressed
\* write succeeds, loadStoryProgress afterwards returns, for every stored
\* story, a session with the same number of segments and the same type and
\* text for each segment as was saved.
C3_CompressedRoundTrip ==
    [][ ( /\ st_last'.op = "save"
          /\ Len(st_last'.attempts) = 2
          /\ st_last'.attempts[1].result = "quota"
          /\ st_last'.attempts[2].result = "ok" )
        => \A id \in DOMAIN SaveIntended :
               SameSegments(loadStoryProgress(ls_progress', id), SaveIntended[id])
      ]_vars

\* C4: saveStoryProgress never lets an exception out; it writes the verbose
\* encoding, after a capacity rejection the compressed one, after a failure of
\* that the cleaned and compressed one, stopping at the first write that is
\* accepted, whose content is then what is stored; if no write is accepted the
\* stored item is what it was before.
C4_SaveDegradesInOrder ==
    [][ st_last'.op = "save" =>
          LET a == st_last'.attempts
              n == Len(a)
              encs == <<"verbose", "compressed", "cleaned">>
          IN /\ ~st_last'.propagated
             /\ n \in 1 .. 3
             /\ \A i \in 1 .. n : a[i].enc = encs[i]
             /\ \A i \in 1 .. (n - 1) : a[i].result # "ok"
             /\ (a[1].result = "quota") <=> (n >= 2)
             /\ (n >= 2 /\ a[2].result # "ok") <=> (n = 3)
             /\ IF a[n].result = "ok"
                THEN ls_progress' =
                        CASE n = 1 -> JSONstringify(SaveIntended)
                          [] n = 2 -> compressProgressData(SaveIntended)
                          [] n = 3 -> compressProgressData(cleanupOldProgressData(SaveIntended))
                ELSE ls_progress' = ls_progress
      ]_vars

\* All three writes of a save were rejected while a value was stored.
C4_Witness ==
    /\ st_last.op = "save"
    /\ Len(st_last.attempts) = 3
    /\ \A i \in 1 .. 3 : st_last.attempts[i].result # "ok"
    /\ ls_progress # NoItem
    /\ ~st_last.propagated


(***************************************************************************)
(*                       CLAIMS ABOUT THE RETRIER                          *)
(***************************************************************************)

\* The policy's classification of an error, read off the two predicates.
NonRetryableByPolicy(config, error) ==
    IF config.shouldRetry = "FAL" THEN ~FalShouldRetry(error)
                                  ELSE ~DefaultShouldRetry(error)

\* The call rejected after every attempt failed with a retryable error.
PermanentRetryableFailure ==
    /\ rt_pc = "thrown"
    /\ \A i \in 1 .. Len(rt_errors) : ~NonRetryableByPolicy(rt_config, rt_errors[i])

\* C8: a retryable operation that fails on every attempt is invoked exactly
\* maxRetries + 1 times, the retrier sleeps exactly maxRetries times, and the
\* call rejects with the very error the last attempt raised.
C8_RetryBound ==
    PermanentRetryableFailure =>
        /\ rt_calls = rt_config.maxRetries + 1
        /\ Len(rt_errors) = rt_calls
        /\ Len(rt_sleeps) = rt_config.maxRetries
        /\ rt_thrown = rt_errors[Len(rt_errors)]
        /\ rt_thrown.id = rt_config.maxRetries + 1

C8_Witness ==
    /\ PermanentRetryableFailure
    /\ rt_config.maxRetries = DEFAULT_MAX_RETRIES
    /\ rt_calls = 4
    /\ Len(rt_sleeps) = 3

\* C9: an error the policy classifies as non-retryable is rethrown at once: it
\* is the last error raised, the call has rejected with that same error, no
\* sleep follows it and no further attempt is made (one invocation and no
\* sleep when it is the first failure).
C9_NonRetryableShortCircuit ==
    \A i \in 1 .. Len(rt_errors) :
        NonRetryableByPolicy(rt_config, rt_errors[i]) =>
            /\ i = Len(rt_errors)
            /\ rt_pc = "thrown"
            /\ rt_thrown = rt_errors[i]
            /\ rt_calls = i
            /\ Len(rt_sleeps) = i - 1

C9_Witness ==
    /\ rt_pc = "thrown"
    /\ rt_config.maxRetries = DEFAULT_MAX_RETRIES
    /\ Len(rt_errors) = 1
    /\ NonRetryableByPolicy(rt_config, rt_errors[1])
    /\ rt_calls = 1
    /\ rt_sleeps = <<>>

\* C10 as stated: for a permanently failing retryable operation the second
\* delay is at least 1.5 times and at most 2.5 times the first.
C10_Original ==
    (PermanentRetryableFailure /\ Len(rt_sleeps) >= 2) =>
        /\ 2 * rt_sleeps[2] >= 3 * rt_sleeps[1]
        /\ 2 * rt_sleeps[2] <= 5 * rt_sleeps[1]

\* C10 as amended: each delay is its un-jittered value min(initial * 2^k, max)
\* perturbed by at most 25%, so the second delay is at least 0.6 times and at
\* most 5/3 times the first delay scaled by the ratio of the un-jittered
\* delays; when the doubled initial delay is not capped by maxDelayMs this is
\* at least 1.2 times and at most 10/3 times the first delay.
C10_DelayRatio ==
    (PermanentRetryableFailure /\ Len(rt_sleeps) >= 2) =>
        LET d1 == Min(rt_config.initialDelayMs, rt_config.maxDelayMs)
            d2 == Min(2 * rt_config.initialDelayMs, rt_config.maxDelayMs)
        IN /\ 5 * rt_sleeps[2] * d1 >= 3 * rt_sleeps[1] * d2
           /\ 3 * rt_sleeps[2] * d1 <= 5 * rt_sleeps[1] * d2
           /\ (2 * rt_config.initialDelayMs <= rt_config.maxDelayMs) =>
                  /\ 5 * rt_sleeps[2] >= 6 * rt_sleeps[1]
                  /\ 3 * rt_sleeps[2] <= 10 * rt_sleeps[1]

C10_Witness ==
    /\ PermanentRetryableFailure
    /\ Len(rt_sleeps) >= 2
    /\ 2 * rt_config.initialDelayMs <= rt_config.maxDelayMs
    /\ 2 * rt_sleeps[2] < 3 * rt_sleeps[1]

(***************************************************************************)
(*                      CLAIMS ABOUT THE TURN LOOP                         *)
(***************************************************************************)

\* C1: a turn invoked (the mount effect's or handleChoice's call of
\* fetchNextSegment, or handleChoice itself) while an earlier turn's narrative
\* request is pending is a no-op: segments, pending choices, story history and
\* user choice count stay as they are and no narrative request is issued.
C1_SecondInvocationIsNoOp ==
    [][ ( /\ Len(pendingNarrative) > 0
          /\ lastEvent'.op \in {"mountEffect", "handleChoice", "trackChoiceReturns"} )
        => UNCHANGED <<segments, choices, storyHistory, userChoiceCount,
                       pendingNarrative, turn>>
      ]_vars

\* handleChoice was invoked and rejected while the second turn's narrative
\* request was pending.
C1_Witness ==
    /\ lastEvent.op = "handleChoice"
    /\ ~lastEvent.accepted
    /\ Len(pendingNarrative) = 1
    /\ pendingNarrative[1].turn > 1
    /\ Len(segments) > 0

\* The entries of a history or prompt context come from turns that did not fail.
OnlySuccessfulTurns(entries, failed) ==
    \A k \in 1 .. Len(entries) : entries[k].turn \notin failed

\* C2: when a turn's narrative response is the fallback or its narrative call
\* throws, the story history afterwards equals the history before that turn;
\* the history, and the context of every prompt built from it, hold only
\* PROMPT/RESPONSE entries of turns that did not fail.
C2_FailedTurnLeavesNoHistory ==
    [][ /\ ( /\ lastEvent'.op = "narrativeReturns"
             /\ lastEvent'.outcome \in {"fallback", "throws"}
             /\ lastEvent' # lastEvent )
           => storyHistory' = lastEvent'.before
        /\ OnlySuccessfulTurns(storyHistory', failedTurns')
        /\ \A r \in 1 .. Len(pendingNarrative') :
               OnlySuccessfulTurns(pendingNarrative'[r].context, failedTurns')
      ]_vars

\* The second turn fell back after a successful first turn, whose two entries
\* are what the history holds.
C2_Witness ==
    /\ lastEvent.op = "narrativeReturns"
    /\ lastEvent.outcome = "fallback"
    /\ lastEvent.turn = 2
    /\ failedTurns = {2}
    /\ storyHistory = <<PromptEntry(1), ResponseEntry(1)>>

\* C5: when the primary image provider fails and the secondary succeeds, the
\* image attached is the secondary's payload, the payload is in the media
\* cache, and a later request for the same scene is served from the cache:
\* neither provider is called for a scene whose payload is cached.
C5_FallbackResultServesRepeat ==
    [][ /\ ( /\ lastEvent'.op = "falImageReturns"
             /\ lastEvent' # lastEvent
             /\ lastEvent'.ok
             /\ lastEvent'.dbOk )
           => LET payload == [src |-> "fal", prompt |-> lastEvent'.prompt.scene]
              IN /\ \A i \in 1 .. Len(segments) :
                        segments'[i] # segments[i] => segments'[i].imageUrl = payload
                 /\ \E key \in DOMAIN mediaCache' : mediaCache'[key].mediaBlob = payload
        /\ \A task \in mediaTasks' \ mediaTasks :
               /\ task.pc = "gemini" => FalImageKey(task.prompt) \notin DOMAIN mediaCache
               /\ (task.pc = "falProvider" /\ lastEvent'.dbOk)
                     => FalImageKey(task.prompt) \notin DOMAIN mediaCache
      ]_vars

\* C6: every image a media task attached sits on the narrator segment that the
\* task's own turn created.
C6_MediaOnOwnSegment ==
    \A i \in 1 .. Len(segments) :
        attachedBy[i] # 0 =>
            /\ segments[i].type = "narrator"
            /\ segments[i].text = Narrative(attachedBy[i], segments[i].text.markers)

(***************************************************************************)
(*                       CLAIMS ABOUT NARRATION                            *)
(***************************************************************************)

\* The narrations that can be heard: those of the audio elements that are
\* playing and the one the built-in synthesis is speaking.
Sounding ==
    { audioElements[a].narration :
          a \in { e \in 1 .. Len(audioElements) : audioElements[e].state = "playing" } }
    \cup (IF synth.utterance # 0 /\ ~synth.paused THEN {synth.utterance} ELSE {})

\* C7: at most one narration is active at any time: once narration B has been
\* started, the audio of an earlier narration A neither starts nor goes on
\* playing, also when A's hosted synthesis completes after B was started.  So
\* whatever sounds belongs to the narration started last, and at most one
\* audio element plays.
C7_OnlyLatestNarrationSounds ==
    /\ \A n \in Sounding : n = Len(narrations)
    /\ Cardinality({ e \in 1 .. Len(audioElements) :
                         audioElements[e].state = "playing" }) <= 1

(***************************************************************************)
(*                 MORE CLAIMS ABOUT THE RETRIER                           *)
(***************************************************************************)

\* C11: the delay slept before retry number k (k = 0, 1, ...) is
\* min(initialDelayMs * 2^k, maxDelayMs) perturbed by at most 25% either way
\* and never negative; once initialDelayMs * 2^k has reached maxDelayMs the
\* un-jittered delay is maxDelayMs for every later retry.  Delays are scaled
\* by JitterScale.
C11_DelayCappedAndJittered ==
    \A k \in 0 .. Len(rt_sleeps) - 1 :
        LET base == rt_config.initialDelayMs * Pow2(k)
            unjittered == IF base >= rt_config.maxDelayMs
                          THEN rt_config.maxDelayMs ELSE base
            slept == rt_sleeps[k + 1]
        IN /\ slept >= 0
           /\ 4 * slept >= 3 * unjittered * JitterScale
           /\ 4 * slept <= 5 * unjittered * JitterScale

\* Three retries were slept for, the second and the third with the delay at
\* its cap.
C11_Witness ==
    /\ Len(rt_sleeps) >= 3
    /\ rt_config.initialDelayMs < rt_config.maxDelayMs
    /\ rt_config.initialDelayMs * 2 >= rt_config.maxDelayMs
    /\ rt_sleeps[3] # rt_sleeps[2]

(***************************************************************************)
(*                    CLAIMS ABOUT THE CACHE STORES                        *)
(***************************************************************************)

\* C12: a cache put that wrote its entry, followed by a get of the same
\* fingerprint, returns the payload that was put, also right after the
\* eviction pass the put itself ran, as long as the entry is younger than
\* the maximum age of its kind of cache.
C12_PutThenGetReturnsPayload ==
    ( /\ cacheLast.op = "get"
      /\ cacheLast.fault = "none"
      /\ cachePut.op = "put"
      /\ cachePut.fault # "put"
      /\ cacheLast.request = cachePut.request
      /\ cacheLast.at - cachePut.at < MAX_CACHE_AGE(cacheKind) )
    => cacheLast.blob = cachePut.blob

\* A get answers the payload of a put whose eviction pass had entries to
\* remove for the count.
C12_Witness ==
    /\ cacheLast.op = "get"
    /\ cachePut.op = "put"
    /\ cachePut.fault = "none"
    /\ cacheLast.request = cachePut.request
    /\ Cardinality(DOMAIN cachePut.before) >= MAX_CACHE_ENTRIES(cacheKind)
    /\ cacheLast.blob = cachePut.blob

\* Two requests of a kind that differ at most in the leading and trailing
\* whitespace and the letter case of their text.
SameButForm(kind, r1, r2) ==
    IF kind = "media"
    THEN [r1 EXCEPT !.prompt.form = "any"] = [r2 EXCEPT !.prompt.form = "any"]
    ELSE [r1 EXCEPT !.text.form = "any"] = [r2 EXCEPT !.text.form = "any"]

\* C13: two requests whose text differs only in leading or trailing
\* whitespace or in letter case map to the same cache entry, in the media
\* cache and in the audio cache: they have the same key, and a get with one
\* text answers the payload put with the other.
C13_FormInsensitiveKey ==
    ( /\ cacheLast.op = "get"
      /\ cachePut.op = "put"
      /\ SameButForm(cacheKind, cacheLast.request, cachePut.request) )
    => /\ KeyOf(cacheKind, cacheLast.request) = KeyOf(cacheKind, cachePut.request)
       /\ ( /\ cacheLast.fault = "none"
            /\ cachePut.fault # "put"
            /\ cacheLast.at - cachePut.at < MAX_CACHE_AGE(cacheKind) )
          => cacheLast.blob = cachePut.blob

\* A get with the padded, upper-case text answers what was put with the text
\* as written.
C13_Witness ==
    /\ cacheLast.op = "get"
    /\ cachePut.op = "put"
    /\ cachePut.fault = "none"
    /\ cacheLast.request # cachePut.request
    /\ SameButForm(cacheKind, cacheLast.request, cachePut.request)
    /\ cacheLast.blob = cachePut.blob

\* The entries a put leaves for the count pass: those of the store before it
\* and the one it wrote, without the ones older than the maximum age.
C14_Timestamp(key) ==
    IF key = KeyOf(cacheKind, cacheLast.request) THEN cacheLast.at
    ELSE cacheLast.before[key].timestamp
C14_Unexpired ==
    { key \in DOMAIN cacheLast.before \cup {KeyOf(cacheKind, cacheLast.request)} :
          cacheLast.at - C14_Timestamp(key) <= MAX_CACHE_AGE(cacheKind) }

\* C14: after every put that ran without a storage failure, the store holds
\* no entry older than the maximum age of its kind (30 days for media, 7 days
\* for audio) and at most the maximum count of its kind (50 for media, 100
\* for audio); the entries removed to meet the count are exactly the ones
\* with the smallest creation timestamps, and no more than needed.
C14_StoreBoundedAfterPut ==
    ( cacheLast.op = "put" /\ cacheLast.fault = "none" )
    => /\ \A key \in DOMAIN cacheStore :
              cacheLast.at - cacheStore[key].timestamp <= MAX_CACHE_AGE(cacheKind)
       /\ Cardinality(DOMAIN cacheStore) <= MAX_CACHE_ENTRIES(cacheKind)
       /\ DOMAIN cacheStore \subseteq C14_Unexpired
       /\ Cardinality(DOMAIN cacheStore) =
              Min(Cardinality(C14_Unexpired), MAX_CACHE_ENTRIES(cacheKind))
       /\ \A removed \in C14_Unexpired \ DOMAIN cacheStore :
              \A kept \in DOMAIN cacheStore :
                  C14_Timestamp(removed) < cacheStore[kept].timestamp

\* A put into a store above the maximum count, none of whose entries has
\* expired: its eviction pass removes the two oldest entries.
C14_Witness ==
    /\ cacheLast.op = "put"
    /\ cacheLast.fault = "none"
    /\ Cardinality(DOMAIN cacheLast.before) = MAX_CACHE_ENTRIES(cacheKind) + 1
    /\ Cardinality(C14_Unexpired) = MAX_CACHE_ENTRIES(cacheKind) + 2
    /\ Cardinality(DOMAIN cacheStore) = MAX_CACHE_ENTRIES(cacheKind)

\* Whether the entry a get asks for is in the store and older than the
\* maximum age.
C15_Expired ==
    /\ KeyOf(cacheKind, cacheLast.request) \in DOMAIN cacheLast.before
    /\ cacheLast.at - cacheLast.before[KeyOf(cacheKind, cacheLast.request)].timestamp
           > MAX_CACHE_AGE(cacheKind)

\* C15: cache get and put never throw to the caller.  A get of an absent or
\* expired entry answers absent; a failure of the underlying store during a
\* get, a put or the eviction pass is swallowed: the get answers absent and
\* the put returns normally.
C15_CacheNeverThrows ==
    /\ cacheLast.op \in {"put", "get"} => ~cacheLast.thrown
    /\ ( /\ cacheLast.op = "get"
         /\ \/ KeyOf(cacheKind, cacheLast.request) \notin DOMAIN cacheLast.before
            \/ C15_Expired
            \/ cacheLast.fault = "get" )
       => cacheLast.blob = Null

\* The store fails while a get deletes an expired entry, and the get answers
\* absent.
C15_Witness ==
    /\ cacheLast.op = "get"
    /\ cacheLast.fault = "delete"
    /\ C15_Expired
    /\ cacheLast.blob = Null
    /\ ~cacheLast.thrown

(***************************************************************************)
(*                 MORE CLAIMS ABOUT THE TURN LOOP                         *)
(***************************************************************************)

\* C16: every response returned by generateStorySegment has at least one
\* choice; an empty or missing choice list from the provider is replaced by
\* exactly one default choice, "Continue the story.".
C16_ResponseHasChoice ==
    ( lastEvent.op = "narrativeReturns" /\ lastEvent.outcome # "throws" )
    => /\ Len(lastEvent.response.choices) >= 1
       /\ ( /\ ~lastEvent.answer.failed
            /\ \/ "choices" \notin DOMAIN lastEvent.answer.json
               \/ Len(lastEvent.answer.json.choices) = 0 )
          => lastEvent.response.choices = <<CONTINUE_THE_STORY>>

\* The provider left the choice list out, and the response returned has the
\* default choice.
C16_Witness ==
    /\ lastEvent.op = "narrativeReturns"
    /\ lastEvent.outcome = "ok"
    /\ "choices" \notin DOMAIN lastEvent.answer.json
    /\ lastEvent.response.choices = <<CONTINUE_THE_STORY>>
    /\ choices = <<CONTINUE_THE_STORY>>

\* C17: when the provider call fails, generateStorySegment returns a degraded
\* response carrying exactly one retry choice; the turn loop appends it as a
\* narrator segment with no loading flag, offers that choice, clears the
\* loading state and releases the re-entrancy guard.
C17_ProviderFailureDegrades ==
    ( /\ lastEvent.op = "narrativeReturns"
      /\ lastEvent.outcome # "throws"
      /\ lastEvent.answer.failed )
    => /\ lastEvent.outcome = "fallback"
       /\ lastEvent.response.isFallback
       /\ lastEvent.response.choices = <<TRY_AGAIN_DOTS>>
       /\ Len(segments) >= 1
       /\ segments[Len(segments)] =
              Segment("narrator", lastEvent.response.narrative, FALSE)
       /\ choices = lastEvent.response.choices
       /\ ~isLoading
       /\ ~isGeneratingRef

\* The provider failed on the quota in the second turn.
C17_Witness ==
    /\ lastEvent.op = "narrativeReturns"
    /\ lastEvent.outcome = "fallback"
    /\ lastEvent.turn = 2
    /\ lastEvent.answer = [failed |-> TRUE, kind |-> "quota"]
    /\ Len(segments) >= 2
    /\ choices = <<TRY_AGAIN_DOTS>>

\* C18: narrative, image and clip provider calls are each bounded by a fixed
\* timeout: if the provider never responds, the call is eventually treated
\* as a failure, so the turn eventually ends (the loading state cleared and a
\* choice offered, or the story completed) and the media slot eventually
\* resolves through the fallback chain.
C18_CallsEndByTimeout ==
    /\ (Len(pendingNarrative) > 0)
           ~> ( /\ Len(pendingNarrative) = 0
                /\ \/ showCompletionModal
                   \/ ~isLoading /\ Len(choices) > 0 )
    /\ (mediaTasks # {}) ~> (mediaTasks = {})

\* The segments of the sessions in the stored item, in either encoding.
C19_StoredSegments ==
    IF ~JSONparses(ls_progress) THEN {}
    ELSE LET stored == JSONparse(ls_progress)
             segs(p) == IF "s" \in DOMAIN p THEN p.s ELSE GetOr(p, "segments", <<>>)
         IN UNION { { segs(stored[storyId])[i] :
                          i \in 1 .. Len(segs(stored[storyId])) } :
                    storyId \in DOMAIN stored }

\* C19: no session state written to durable storage contains a segment whose
\* image-loading or clip-loading flag is true, in the verbose and in the
\* compressed encoding, for the auto-save and for the save made when a story
\* completes.
C19_NoLoadingFlagPersisted ==
    \A segment \in C19_StoredSegments :
        /\ ~GetOr(segment, "isLoadingImage", FALSE)
        /\ ~GetOr(segment, "isLoadingGif", FALSE)

\* The narrator segment that turn t created: the slot of its scene image.
C20_Slot(t) ==
    segments[CHOOSE i \in 1 .. Len(segments) :
                 /\ segments[i].type = "narrator"
                 /\ segments[i].text.label = "narrative"
                 /\ segments[i].text.n = t]

\* C20: for a scene image, the secondary provider is called only after the
\* primary provider has failed, and only if it is configured and the
\* fallback flag is enabled; the slot resolves to the primary's image if the
\* primary succeeds, else to the secondary's image if it was attempted and
\* succeeded, else to the fixed placeholder image, and never to an empty
\* image.
C20_ImageFallbackChain ==
    /\ \A task \in mediaTasks :
           task.pc # "gemini" => cfg.useFalFallback /\ cfg.falConfigured
    /\ (lastEvent.op = "geminiImageReturns" /\ lastEvent.ok)
           => /\ \A task \in mediaTasks : task.turn # lastEvent.turn
              /\ C20_Slot(lastEvent.turn).imageUrl.src = "gemini"
    /\ (lastEvent.op = "geminiImageReturns" /\ ~lastEvent.ok)
           => IF cfg.useFalFallback /\ cfg.falConfigured
              THEN \E task \in mediaTasks :
                       task.turn = lastEvent.turn /\ task.pc = "falCache"
              ELSE C20_Slot(lastEvent.turn).imageUrl = PLACEHOLDER_URL
    /\ (lastEvent.op = "falCacheAnswers" /\ lastEvent.hit)
           => C20_Slot(lastEvent.turn).imageUrl.src = "fal"
    /\ lastEvent.op = "falImageReturns"
           => IF lastEvent.ok
              THEN C20_Slot(lastEvent.turn).imageUrl.src = "fal"
              ELSE C20_Slot(lastEvent.turn).imageUrl = PLACEHOLDER_URL
    /\ \A i \in 1 .. Len(segments) :
           attachedBy[i] # 0 => /\ ~segments[i].isLoadingImage
                                /\ segments[i].imageUrl # NoUrl

(***************************************************************************)
(*                         CLAIMS ABOUT CLIPS                              *)
(***************************************************************************)

C23_Syntheses(n) ==
    SelectSeq(narrations[n].calls, LAMBDA c : c.call = "synthesize")

\* C23: when the first-choice hosted provider fails with a quota-exceeded
\* error the same utterance goes to the second hosted provider, at most once
\* and with no further fallback; after any other error, and after a failure
\* of the second provider, no segment is marked as playing or generating.
C23_QuotaFallsBackOnce ==
    \A n \in 1 .. Len(narrations) :
        LET syn == C23_Syntheses(n)
        IN /\ \A j \in 1 .. Len(syn) :
                  syn[j].outcome # "ok" =>
                      IF syn[j].provider = "elevenlabs" /\ syn[j].outcome = "quota_exceeded"
                      THEN syn[j].next = {NarrationTask(n, "speechify", "cacheLookup", NoBlob)}
                      ELSE /\ syn[j].next = {}
                           /\ syn[j].index = NoIndex
                           /\ ~syn[j].generating
           /\ Cardinality({j \in 1 .. Len(syn) : syn[j].provider = "speechify"}) <= 1
           /\ \A j \in 1 .. Len(syn) :
                  syn[j].provider = "speechify" => j = Len(syn)

C23_Witness ==
    \E n \in 1 .. Len(narrations) :
        LET syn == C23_Syntheses(n)
        IN /\ Len(syn) = 2
           /\ syn[1].provider = "elevenlabs" /\ syn[1].outcome = "quota_exceeded"
           /\ syn[2].provider = "speechify" /\ syn[2].outcome # "ok"
           /\ currentlyPlayingIndex = NoIndex /\ ~isGeneratingAudio

\* The key a hosted handler passes to the audio cache for narration n.
C24_Key(n, provider) ==
    generateAudioCacheKey(narrations[n].text, VoiceId(provider), HOSTED_SPEED, provider)

\* C24: for hosted narration the audio cache is looked up by (text, voice id,
\* speed 1.0, provider) before any network call; on a hit no synthesis call
\* is made; on a miss a successful synthesis is stored under the key that was
\* looked up, so that the same request, repeated, is a hit.
C24_LookupBeforeSynthesis ==
    \A n \in 1 .. Len(narrations) :
        LET calls == narrations[n].calls
        IN \A j \in 1 .. Len(calls) :
               /\ calls[j].call = "lookup" =>
                      /\ calls[j].key = C24_Key(n, calls[j].provider)
                      /\ calls[j].key.speed = 1
                      /\ calls[j].hit => j = Len(calls)
                      /\ calls[j].readable => calls[j].hit
               /\ calls[j].call = "synthesize" =>
                      /\ j > 1
                      /\ calls[j - 1].call = "lookup"
                      /\ calls[j - 1].provider = calls[j].provider
                      /\ ~calls[j - 1].hit
               /\ calls[j].call = "put" =>
                      /\ j > 2
                      /\ calls[j - 1].call = "synthesize"
                      /\ calls[j - 1].outcome = "ok"
                      /\ calls[j - 1].provider = calls[j].provider
                      /\ calls[j].stored =>
                             /\ calls[j - 2].key \in DOMAIN audioCache
                             /\ audioCache[calls[j - 2].key].audioBlob = calls[j].blob

C24_Witness ==
    \E n, m \in 1 .. Len(narrations) :
        /\ n < m
        /\ narrations[n].text = narrations[m].text
        /\ Len(narrations[n].calls) = 3
        /\ narrations[n].calls[3].call = "put" /\ narrations[n].calls[3].stored
        /\ Len(narrations[m].calls) = 1
        /\ narrations[m].calls[1].hit
        /\ narrations[m].calls[1].provider = narrations[n].calls[3].provider

(***************************************************************************)
(*                     CLAIMS ABOUT CLEANUP AND SETTINGS                   *)
(***************************************************************************)

\* The most recent Min(Len(seq), k) entries of seq, in their order.
C25_MostRecent(seq, k) ==
    LET kept == Min(Len(seq), k)
    IN [i \in 1 .. kept |-> seq[Len(seq) - kept + i]]

\* A field of a stored story, under its name in the verbose encoding or, when
\* the story has no such field, under its short name in the compressed one.
C25_Field(story, long, short, dflt) ==
    IF long \in DOMAIN story THEN story[long]
    ELSE IF short \in DOMAIN story THEN story[short] ELSE dflt

\* C25: the destructive cleanup keeps, for every completed story, its most
\* recent min(n, 20) segments and history entries in order and empties its
\* pending choices, and for every incomplete story its most recent min(n, 30)
\* segments and history entries with its pending choices kept; no story is
\* removed and every other field is unchanged.
C25_CleanupKeepsMostRecent ==
    st_last.op = "cleanup" =>
        /\ DOMAIN st_last.cleaned = DOMAIN st_last.loaded
        /\ \A id \in DOMAIN st_last.loaded :
               LET before == st_last.loaded[id]
                   after == st_last.cleaned[id]
                   completed == C25_Field(before, "isCompleted", "comp", FALSE)
                   k == IF completed THEN 20 ELSE 30
                   cut == {"segments", "storyHistory", "currentChoices",
                           "s", "h", "c"}
               IN /\ C25_Field(after, "segments", "s", <<>>) =
                         C25_MostRecent(C25_Field(before, "segments", "s", <<>>), k)
                  /\ C25_Field(after, "storyHistory", "h", <<>>) =
                         C25_MostRecent(C25_Field(before, "storyHistory", "h", <<>>), k)
                  /\ C25_Field(after, "currentChoices", "c", <<>>) =
                         IF completed THEN <<>>
                         ELSE C25_Field(before, "currentChoices", "c", <<>>)
                  /\ \A f \in DOMAIN before \ cut :
                         f \in DOMAIN after /\ after[f] = before[f]

\* The section of the persisted settings, as an object: empty when nothing
\* parseable is stored, or the stored object has no such section or a null.
C26_Persisted(saved, section) ==
    IF /\ saved # NoItem
       /\ JSONparses(saved)
       /\ JSONparse(saved) # Null
       /\ section \in DOMAIN JSONparse(saved)
       /\ JSONparse(saved)[section] # Null
    THEN JSONparse(saved)[section]
    ELSE EmptyObject

\* C26: loadSettings never throws, and in the settings it returns every
\* default field of the narration, ElevenLabs, Speechify and fal sections is
\* present: a field the persisted data has keeps its persisted value, a field
\* it lacks has the default, and unparseable data yields the defaults.
C26_LoadMergesDefaults ==
    settingsLast.op = "load" =>
        LET defaults == getDefaultSettings(settingsLast.voice)
            result == settingsLast.result
        IN /\ ~result.thrown
           /\ \A section \in {"narration", "elevenLabs", "speechify", "fal"} :
                  LET persisted == C26_Persisted(settingsLast.saved, section)
                  IN /\ section \in DOMAIN result.value
                     /\ result.value[section] # Null
                     /\ \A f \in DOMAIN defaults[section] :
                            /\ f \in DOMAIN result.value[section]
                            /\ f \notin DOMAIN persisted =>
                                   result.value[section][f] = defaults[section][f]
                     /\ \A f \in DOMAIN persisted :
                            /\ f \in DOMAIN result.value[section]
                            /\ result.value[section][f] = persisted[f]
           /\ (settingsLast.saved # NoItem /\ ~JSONparses(settingsLast.saved))
                  => result.value = defaults

\* Settings written before useFalFallback and the narration provider existed
\* are loaded: the stored fields are kept and the new ones have their defaults.
C26_Witness ==
    /\ settingsLast.op = "load"
    /\ C26_Persisted(settingsLast.saved, "narration") = [enabled |-> TRUE]
    /\ "useFalFallback" \notin DOMAIN C26_Persisted(settingsLast.saved, "fal")
    /\ C26_Persisted(settingsLast.saved, "fal") # EmptyObject
    /\ settingsLast.result.value.narration.enabled
    /\ settingsLast.result.value.narration.provider = "webspeech"
    /\ settingsLast.result.value.fal.useFalFallback
    /\ settingsLast.result.value.fal.currentSessionCount = 1

(***************************************************************************)
(*                  CLAIMS ABOUT MEDIA AND THE TURN LOOP                   *)
(***************************************************************************)

\* The steps of the detached media task.
C27_MediaSteps ==
    {"geminiImageReturns", "falCacheAnswers", "falImageReturns",
     "gifCacheAnswers", "gifReturns"}

\* C27: media generation never blocks the turn loop.  The step that receives
\* a narrative response which continues the story offers the response's
\* choices, clears the loading state and frees the re-entrancy guard while
\* that turn's media task is still pending, so that a choice made then is
\* accepted; and a step of the detached media task, whatever its outcome,
\* leaves the choices, the loading state, the re-entrancy guard, the story
\* history and the user choice count as they were.
C27_MediaNeverBlocksTurns ==
    [][ /\ (lastEvent'.op = "narrativeReturns" /\ lastEvent'.outcome = "ok") =>
              /\ choices' = lastEvent'.response.choices
              /\ ~isLoading'
              /\ ~isGeneratingRef'
              /\ \E task \in mediaTasks' : task.turn = lastEvent'.turn
              /\ ~ChoiceBlocked(isLoading')
              /\ ~AlreadyGenerating(isGeneratingRef')
        /\ lastEvent'.op \in C27_MediaSteps =>
              /\ choices' = choices
              /\ isLoading' = isLoading
              /\ isGeneratingRef' = isGeneratingRef
              /\ storyHistory' = storyHistory
              /\ userChoiceCount' = userChoiceCount
      ]_vars

\* The image of a turn arrives while the next turn, started meanwhile by a
\* choice, is waiting for its narrative.
C27_Witness ==
    /\ lastEvent.op = "geminiImageReturns"
    /\ lastEvent.ok
    /\ lastEvent.turn < turn
    /\ isLoading
    /\ isGeneratingRef
    /\ choices = <<>>
    /\ Len(pendingNarrative) = 1
    /\ pendingNarrative[1].turn = lastEvent.turn + 1

\* The session loadStoryProgress returns for the story being played, from the
\* stored item, has the field with the value.
C28_Persisted(item, field, value) ==
    LET progress == loadStoryProgress(item, STORY_ID)
    IN /\ progress # Null
       /\ field \in DOMAIN progress
       /\ progress[field] = value

\* C28: while no turn is loading, every step that changes the segment list,
\* the pending choices or the user choice count (the in-place update of a
\* finished media task included) is followed by a persistence write after
\* which the persisted session has the in-memory segments, choices, story
\* history and user choice count.
C28_ChangesArePersisted ==
    [][ ( /\ ~isLoading'
          /\ \/ segments' # segments
             \/ choices' # choices
             \/ userChoiceCount' # userChoiceCount ) =>
            ( /\ st_last'.op = "save"
              /\ C28_Persisted(ls_progress', "segments", segments')
              /\ C28_Persisted(ls_progress', "currentChoices", choices')
              /\ C28_Persisted(ls_progress', "storyHistory", storyHistory')
              /\ C28_Persisted(ls_progress', "userChoiceCount", userChoiceCount') )
      ]_vars

\* The steps in which a provider's payload comes back: the primary image,
\* the secondary image, the clip.
C29_Produced(event) ==
    \/ event.op = "geminiImageReturns" /\ event.ok
    \/ event.op = "falImageReturns" /\ event.ok
    \/ event.op = "gifReturns" /\ event.outcome = "ok"

\* The states of a media task in which a provider has been called.
C29_AtProvider == {"gemini", "falProvider", "gifProvider"}

\* C29: for every image or clip a provider produces (primary image,
\* secondary image, clip), the generation cache is consulted before the
\* provider is called, and the payload is in the cache when it is attached
\* to a segment.
C29_CacheAroundProvider ==
    [][ /\ \A task \in mediaTasks' \ mediaTasks :
               task.pc \in C29_AtProvider =>
                   /\ lastEvent'.op \in {"falCacheAnswers", "gifCacheAnswers"}
                   /\ ~lastEvent'.hit
        /\ C29_Produced(lastEvent') =>
               \A i \in 1 .. Len(segments) :
                   /\ segments'[i].imageUrl # segments[i].imageUrl =>
                          \E key \in DOMAIN mediaCache' :
                              mediaCache'[key].mediaBlob = segments'[i].imageUrl
                   /\ segments'[i].gifUrl # segments[i].gifUrl =>
                          \E key \in DOMAIN mediaCache' :
                              mediaCache'[key].mediaBlob = segments'[i].gifUrl
      ]_vars

(***************************************************************************)
(*                     CLAIMS ABOUT THE SEGMENT LIST                       *)
(***************************************************************************)

\* The segments a step changes in place.
C31_Changed == {i \in 1 .. Len(segments) : i <= Len(segments') /\ segments'[i] # segments[i]}

\* A narrator segment whose image or clip is still loading.
C31_Loading(seg) == seg.type = "narrator" /\ (seg.isLoadingImage \/ seg.isLoadingGif)

C32_Idle(index, paused, audio) == index = NoIndex /\ ~paused /\ audio = NoAudio

\* The steps that end a narration: an audio element ends or fails, the
\* built-in synthesis ends or fails, a hosted synthesis fails with no
\* provider left to try, the player is stopped.
C32_AudioEnds ==
    \E a \in 1 .. Len(audioElements) :
        audioElements[a].state = "playing" /\ audioElements'[a].state = "ended"
C32_UtteranceEnds == synth' # synth /\ audioElements' = audioElements
                         /\ narrations' = narrations /\ isPaused' = isPaused
                         /\ synth'.paused = synth.paused
C32_SynthesisFails ==
    \E n \in 1 .. Len(narrations) :
        /\ Len(narrations'[n].calls) = Len(narrations[n].calls) + 1
        /\ LET entry == narrations'[n].calls[Len(narrations'[n].calls)]
           IN entry.call = "synthesize" /\ entry.outcome # "ok" /\ entry.next = {}
C32_Stops == narrationSettings' = Unmounted /\ narrationSettings # Unmounted

\* C32: the narration state moves along idle, generating, playing, paused,
\* idle.  The paused flag is set only while the active segment is playing
\* (a playing index, no generation in progress) and cleared by a resume only
\* on that same segment; and the end of the audio, a playback error, a
\* synthesis error and stop each leave no playing index, no paused flag and
\* no audio handle.
C32_NarrationStates ==
    [][ /\ (isPaused' /\ ~isPaused) =>
              /\ currentlyPlayingIndex # NoIndex
              /\ ~isGeneratingAudio
              /\ currentlyPlayingIndex' = currentlyPlayingIndex
        /\ (isPaused /\ ~isPaused' /\ currentlyPlayingIndex' # NoIndex
                /\ Len(narrations') = Len(narrations)) =>
              currentlyPlayingIndex' = currentlyPlayingIndex
        /\ (isGeneratingAudio' /\ ~isGeneratingAudio) =>
              Len(narrations') = Len(narrations) + 1
        /\ (Mounted /\ (C32_AudioEnds \/ C32_SynthesisFails \/ C32_Stops)) =>
              C32_Idle(currentlyPlayingIndex', isPaused', currentAudioElement')
      ]_vars

(* CLAIMS ABOUT STORY COMPLETION *)
\* The distinct marker phrases of a narrative text, whatever their case.
C33_Phrases(narrative) ==
    { narrative.markers[i].phrase : i \in 1 .. Len(narrative.markers) }
C33_Completes(response) ==
    response.isComplete \/ Cardinality(C33_Phrases(response.narrative)) >= 3

\* C33: a turn whose narrative call returned a response is treated as the
\* completion of the story (the completion modal is shown and the turn ends as
\* a completion) if and only if the response sets isComplete or its narrative
\* text contains, in any case, at least 3 distinct phrases of the marker list.
C33_CompletionIffFlagOrMarkers ==
    (lastEvent.op = "narrativeReturns" /\ "response" \in DOMAIN lastEvent) =>
        /\ (lastEvent.outcome = "complete") <=> C33_Completes(lastEvent.response)
        /\ lastEvent.outcome = "complete" => showCompletionModal
        /\ showCompletionModal => lastEvent.outcome = "complete"

\* Reached: a turn completed the story on three markers, some written in
\* another case than listed, with isComplete not set.
C33_Witness ==
    /\ lastEvent.op = "narrativeReturns"
    /\ lastEvent.outcome = "complete"
    /\ ~lastEvent.response.isComplete
    /\ \E i \in 1 .. Len(lastEvent.response.narrative.markers) :
           lastEvent.response.narrative.markers[i].form = "upper case"
    /\ showCompletionModal

(* CLAIMS ABOUT THE SEGMENT LIST DURING A SESSION *)
C34_NoMedia(seg) ==
    /\ seg.imageUrl = NoUrl /\ seg.gifUrl = NoUrl
    /\ ~seg.isLoadingImage /\ ~seg.isLoadingGif

\* C34: in a session the segment list only grows by appending: every step
\* keeps each existing segment at its position with its type and text; a
\* segment changed in place is a narrator segment (only its media URLs and
\* loading flags change); and segments of kind user, lesson, question and
\* answer never carry media.
C34_SegmentsOnlyGrow ==
    [][ /\ Len(segments') >= Len(segments)
        /\ \A i \in 1 .. Len(segments) :
               /\ segments'[i].type = segments[i].type
               /\ segments'[i].text = segments[i].text
               /\ segments'[i] # segments[i] => segments[i].type = "narrator"
        /\ \A i \in 1 .. Len(segments') :
               segments'[i].type \in {"user", "lesson", "question", "answer"}
                   => C34_NoMedia(segments'[i])
      ]_vars

\* Reached: a list with a question, its answer, a user choice and a lesson, in
\* which a narrator segment has received its image.
C34_Witness ==
    /\ \A t \in {"user", "lesson", "question", "answer"} :
           \E i \in 1 .. Len(segments) : segments[i].type = t
    /\ \E i \in 1 .. Len(segments) :
           segments[i].type = "narrator" /\ segments[i].imageUrl # NoUrl
    /\ lastEvent.op = "geminiImageReturns"

(* CLAIMS ABOUT INTERLEAVED SEGMENT UPDATES *)
\* A media generation ends in this step: its task leaves the pending set.
C35_MediaSettles == \E task \in mediaTasks : mediaTasks' = mediaTasks \ {task}
C35_Appends ==
    \/ lastEvent'.op \in {"handleChoice", "askQuestion"} /\ lastEvent'.accepted
    \/ lastEvent'.op = "narrativeReturns" /\ lastEvent'.outcome \in {"throws", "fallback", "ok"}
    \/ lastEvent'.op = "clarificationReturns" /\ lastEvent'.outcome = "ok"

\* C35: no segment update is lost when updates interleave.  A step that
\* appends does so to the list as it is then (nothing appended meanwhile is
\* dropped); a media generation that ends updates a segment of the list as it
\* is then; and a media URL a segment has received is never replaced by
\* another update.  So once every pending call has completed the list holds
\* every appended segment and every media update.
C35_NoUpdateLost ==
    [][ /\ C35_Appends =>
               /\ Len(segments') > Len(segments)
               /\ SubSeq(segments', 1, Len(segments)) = segments
        /\ C35_MediaSettles =>
               \E i \in 1 .. Len(segments) :
                   i <= Len(segments') /\ segments'[i] # segments[i]
        /\ \A i \in 1 .. Len(segments) :
               i <= Len(segments') =>
                   /\ segments[i].imageUrl # NoUrl =>
                          segments'[i].imageUrl = segments[i].imageUrl
                   /\ segments[i].gifUrl # NoUrl =>
                          segments'[i].gifUrl = segments[i].gifUrl
      ]_vars

\* Reached: a question was asked and a turn's image was pending when the
\* player chose; the turn loop appended the choice, a narrator segment and a
\* lesson; the answer and both images have arrived and nothing is pending.
C35_Witness ==
    /\ Len(pendingNarrative) = 0 /\ mediaTasks = {} /\ Len(pendingClarification) = 0
    /\ ~isAnswering
    /\ \E q, u, a \in 1 .. Len(segments) :
           /\ q < u /\ u < a
           /\ segments[q].type = "question"
           /\ segments[u].type = "user"
           /\ segments[a].type = "answer"
    /\ \E l \in 1 .. Len(segments) : segments[l].type = "lesson"
    /\ Cardinality({ i \in 1 .. Len(segments) :
                       segments[i].type = "narrator" /\ segments[i].imageUrl # NoUrl }) >= 2

(* CLAIMS ABOUT THE PROACTIVE CLEANUP *)
\* What loadStoryProgress returns holds exactly the segments kept, with their
\* type and text.
C36_Returns(loaded, kept) ==
    /\ loaded # Null
    /\ "segments" \in DOMAIN loaded
    /\ Len(loaded.segments) = Len(kept)
    /\ \A i \in 1 .. Len(kept) :
           /\ loaded.segments[i].type = kept[i].type
           /\ loaded.segments[i].text = kept[i].text

\* C36: after forceCleanupStorage has written the cleaned sessions back,
\* loadStoryProgress returns, for every story that was stored with its
\* segments, the most recent 20 (completed) or 30 (incomplete) of them with
\* their type and text unchanged.
C36_CleanupKeepsSegmentsLoadable ==
    (st_last.op = "cleanup" /\ st_last.attempts[1].result = "ok") =>
        \A id \in DOMAIN st_last.loaded :
            LET before == st_last.loaded[id]
                k == IF GetOr(before, "isCompleted", FALSE) THEN 20 ELSE 30
            IN "segments" \in DOMAIN before =>
                   C36_Returns(loadStoryProgress(ls_progress, id),
                               C25_MostRecent(before.segments, k))

(* CLAIMS ABOUT THE COMPLETION SAVE *)
\* The stored segments are the session's segments followed by the final
\* narrator segment, by type and text.
C37_FullListThenFinal(stored, session, narrative) ==
    /\ Len(stored) = Len(session) + 1
    /\ \A i \in 1 .. Len(session) :
           stored[i].type = session[i].type /\ stored[i].text = session[i].text
    /\ stored[Len(stored)].type = "narrator"
    /\ stored[Len(stored)].text = narrative

\* C37: when a turn's response completes the story, the persisted session of
\* the story is marked completed with a completion date and no pending
\* choices, its segments are the session's segment list so far followed by
\* the final narrator segment, and its user choice count is the session's.
C37_CompletionSavesTheSession ==
    (lastEvent.op = "narrativeReturns" /\ lastEvent.outcome = "complete") =>
        LET saved == loadStoryProgress(ls_progress, STORY_ID)
        IN /\ saved # Null
           /\ saved.isCompleted
           /\ saved.completionDate # 0
           /\ saved.currentChoices = <<>>
           /\ C37_FullListThenFinal(saved.segments, segments,
                                    lastEvent.response.narrative)
           /\ saved.userChoiceCount = userChoiceCount

C39_Loading(i) ==
    /\ i <= Len(segments)
    /\ segments[i].type = "narrator"
    /\ segments[i].isLoadingImage \/ segments[i].isLoadingGif
C39_Settled(i) ==
    /\ i <= Len(segments)
    /\ ~segments[i].isLoadingImage /\ ~segments[i].isLoadingGif
    /\ segments[i].imageUrl # NoUrl \/ segments[i].gifUrl # NoUrl

C40_CleanupTierRan(op) == Len(op.attempts) = 3 /\ op.attempts[3].result = "ok"
\* What is returned for a story is what was returned before, cut to its most
\* recent 20 or 30 segments.
C40_Truncated(before, after) ==
    /\ before # Null /\ "segments" \in DOMAIN before
    /\ C36_Returns(after,
           C25_MostRecent(before.segments,
                          IF GetOr(before, "isCompleted", FALSE) THEN 20 ELSE 30))

\* C40: saveStoryProgress for story A adds or replaces A's entry only: the
\* store holds the stories it held and A, and what loadStoryProgress returns
\* for any other story B is what it returned before the save, or, when the
\* destructive cleanup tier ran, B cut to its most recent 20 or 30 segments.
C40_SaveReplacesOnlyItsStory ==
    [][ st_last'.op = "save" =>
            /\ DOMAIN loadAllProgress(ls_progress') \subseteq
                   DOMAIN loadAllProgress(ls_progress) \cup {st_last'.storyId}
            /\ \A B \in StoryIds \ {st_last'.storyId} :
                   LET before == loadStoryProgress(ls_progress, B)
                       after == loadStoryProgress(ls_progress', B)
                   IN \/ after = before
                      \/ C40_CleanupTierRan(st_last') /\ C40_Truncated(before, after)
      ]_vars

====
